---- MODULE Spec2Model ----
(***************************************************************************)
(* The sequential function-pipeline executor of src/lib/utils/pipe.ts:     *)
(* pipe, compose, pipeAsync and pipeAsyncWithOptions, with the argument    *)
(* validation of the builders (validateFunctions), the retry wrapper       *)
(* (withRetry), the timeout wrapper (withTimeout), the abort check and the *)
(* catch blocks that classify what a step throws.                          *)
(*                                                                         *)
(* One behaviour of Spec is one invocation of one pipeline whose steps are *)
(* all functions; one behaviour of SpecBuild is the construction of a      *)
(* pipeline from arguments that need not be functions, followed by its     *)
(* invocation.  The steps are opaque to the executor, so what a step does  *)
(* on each invocation (return a value, return a promise that settles after *)
(* some time, throw) is chosen by the environment when the invocation      *)
(* settles.                                                                *)
(***************************************************************************)
EXTENDS Integers, Sequences, FiniteSets, TLC

(* ------------------------------ bounds ------------------------------- *)

\* longest step list
MaxSteps == 2
\* largest initial value handed to a pipeline
MaxInput == 1
\* largest options.retryAttempts
MaxAttempts == 3
\* largest maxRetries of a retry strategy under test
MaxRetries == 3
\* how many operations (login, logout, notification handlers) a controller
\* runs besides its bootstrap
MaxOperations == 1
MaxEffectRuns == 2
\* the explicit positive options.retryDelayMs
MaxDelay == 1
\* the options.timeoutMs of a run that sets one
MaxTimeout == 1

(* ------------------------- program constants ------------------------- *)

\* retryAttempts = 1 when the option is absent
DefaultRetryAttempts == 1
\* retryDelayMs = 1000 when the option is absent
DefaultRetryDelayMs == 1000
\* the renewal timer fires 5 minutes before the session expires
RefreshLeadMs == 300000

(* ------------------------------ values ------------------------------- *)

\* JavaScript's undefined
Undefined == [cls |-> "undefined"]

\* The classes of pipe.ts that extend Error, and Error itself.
ErrorClasses ==
  {"Error", "TypeError", "PipeExecutionError", "PipeValidationError",
   "PipeTimeoutError", "PipeRetryError", "PipeAbortError"}

\* What a step may throw: plain Errors (one whose message matches the network
\* heuristics of AuthRetryStrategy, one that does not), a value that is no
\* Error (a thrown string), and errors of the pipeline's own classes, as a
\* nested pipeline run inside the step raises them.  message is the text
\* (String(v) of a value that is no Error); code is "none" where the value
\* has no code property.
ThrownValues ==
  { [cls |-> "Error", message |-> "boom", code |-> "none"],
    [cls |-> "Error", message |-> "Failed to fetch", code |-> "none"],
    [cls |-> "NonError", message |-> "oops", code |-> "none"],
    [cls |-> "PipeTimeoutError", message |-> "inner step timed out", code |-> "none"],
    [cls |-> "PipeRetryError", message |-> "inner retries failed", code |-> "none"],
    [cls |-> "PipeAbortError", message |-> "inner run aborted", code |-> "none"],
    [cls |-> "PipeValidationError", message |-> "inner argument is no function", code |-> "none"] }

\* error instanceof Error (a plain object has no class of its own)
IsErrorInstance(error) == "cls" \in DOMAIN error /\ error.cls \in ErrorClasses

\* error instanceof Error ? error.message : String(error)
MessageOf(error) == error.message

\* The step functions of the examples: add (x => x + 1) and double (x => x * 2).
FnNames == {"add", "double"}

ApplyFn(fn, x) ==
  CASE fn = "add" -> x + 1
    [] fn = "double" -> x * 2

\* Arguments of a builder that are no functions: null and the number 5.
NonCallables == {"null", "five"}

\* isFunction(fn): typeof fn === 'function'
IsFunction(fn) == fn \in FnNames

\* !fn
IsFalsy(fn) == fn = "null"

\* `${i}번째 함수가 정의되지 않았습니다.`: what the loops throw for a falsy step
UndefinedStepError(i) ==
  [cls |-> "Error", message |-> "function is not defined", code |-> "none", index |-> i]

\* what calling a value that is no function throws
NotAFunctionError ==
  [cls |-> "TypeError", message |-> "fn is not a function", code |-> "none"]

\* What a call of a step hands back before it is awaited: a plain value, or a
\* promise that settles after dur.
PlainValue(v) == [isPromise |-> FALSE, dur |-> 0, v |-> v]
PromiseOf(v, dur) == [isPromise |-> TRUE, dur |-> dur, v |-> v]

\* isPromise(value): a thenable
IsPromise(value) == value.isPromise

\* await p: the value the promise is fulfilled with, which is never a promise
Await(p) == PlainValue(p.v)

(* --------------------------- error taxonomy -------------------------- *)

\* slip: the loop index itself, the 0-based index the class comment names
PipeAbortErrorStepZeroBased(i) == i

\* the step number an abort reports: i + 1
PipeAbortErrorStep(i) == i + 1

\* new PipeAbortError(`${i + 1}번째 단계에서 작업이 취소되었습니다`, i + 1)
PipeAbortError(i) ==
  [cls |-> "PipeAbortError", step |-> PipeAbortErrorStep(i)]

\* new PipeTimeoutError(..., timeoutMs, step + 1)
PipeTimeoutError(timeoutMs, step) ==
  [cls |-> "PipeTimeoutError", timeoutMs |-> timeoutMs, step |-> step + 1]

\* new PipeRetryError(..., attempts, lastError)
PipeRetryError(attempts, lastError) ==
  [cls |-> "PipeRetryError", attempts |-> attempts, lastError |-> lastError]

\* error instanceof Error ? error : undefined
OriginalErrorOf(error) == IF IsErrorInstance(error) THEN error ELSE Undefined

\* slip: the 0-based currentStep, as compose reports it
ReportedStepZeroBased(currentStep) == currentStep

\* the step number the catch blocks report: currentStep + 1
ReportedStep(currentStep) == currentStep + 1

\* new PipeExecutionError(errorMessage, currentStep + 1,
\*                        error instanceof Error ? error : undefined)
PipeExecutionError(currentStep, error) ==
  [cls |-> "PipeExecutionError",
   message |-> <<ReportedStep(currentStep), MessageOf(error)>>,
   step |-> ReportedStep(currentStep),
   originalError |-> OriginalErrorOf(error)]

\* new PipeValidationError(`${i}번째 인자가 함수가 아닙니다`, i)
PipeValidationError(i) ==
  [cls |-> "PipeValidationError", message |-> "argument is no function", index |-> i]

(* ------------------------------ helpers ------------------------------ *)

\* withRetry: lastError = error instanceof Error ? error : new Error(String(error))
ToError(error) ==
  IF IsErrorInstance(error)
    THEN error
    ELSE [cls |-> "Error", message |-> MessageOf(error), code |-> "none"]

\* Math.pow(2, n)
RECURSIVE Pow2(_)
Pow2(n) == IF n <= 0 THEN 1 ELSE 2 * Pow2(n - 1)

\* slip: the delay is halved, not doubled, from attempt to attempt
BackoffDelayShrinking(delayMs, i) == delayMs \div Pow2(i)

\* slip: no backoff, the same delay before every attempt
BackoffDelayFixed(delayMs, i) == delayMs

\* withRetry: backoffDelay = delayMs * Math.pow(2, i)
BackoffDelay(delayMs, i) == delayMs * Pow2(i)

\* slip: off by one, withRetry gives up one attempt late
IsLastAttemptOffByOne(i, attempts) == i = attempts

\* withRetry: i === attempts - 1, the attempt after which it gives up
IsLastAttempt(i, attempts) == i = attempts - 1

\* executeAsyncWithErrorHandling: retryAttempts > 1 selects withRetry
UsesRetry(retryAttempts) == retryAttempts > 1

\* slip: the catch lets PipeValidationError through as well
IsPassedThroughWithValidation(error) ==
  error.cls \in {"PipeTimeoutError", "PipeRetryError", "PipeAbortError",
                 "PipeValidationError"}

\* the catch of executeAsyncWithErrorHandling lets these three through
IsPassedThrough(error) ==
  error.cls \in {"PipeTimeoutError", "PipeRetryError", "PipeAbortError"}

\* the catch of executeAsyncWithErrorHandling
AsyncCatch(error, currentStep) ==
  IF IsPassedThrough(error) THEN error ELSE PipeExecutionError(currentStep, error)

\* the catch of executeWithErrorHandling: wraps whatever was thrown
SyncCatch(error, currentStep) == PipeExecutionError(currentStep, error)

\* slip: the position of the step in the argument array
ComposeStepArrayPosition(n, i) == i

\* compose: currentStep = fns.length - 1 - i, the number of steps applied
\* before step i on the walk from the last argument to the first
ComposeStep(n, i) == n - 1 - i

\* the catch of compose: new PipeExecutionError(`... ${currentStep + 1}번째
\* 단계에서 오류 발생`, currentStep,
\*                       error instanceof Error ? error : new Error(String(error)))
ComposeCatch(error, currentStep) ==
  [cls |-> "PipeExecutionError",
   message |-> <<currentStep + 1>>,
   step |-> currentStep,
   originalError |-> ToError(error)]

(* ---------------------------- validation ----------------------------- *)

\* Where the module runs: under Vite (import.meta.env is there, with its
\* MODE), under Node (no import.meta.env, process.env with its NODE_ENV), or
\* in an environment with neither.
ViteEnv(m) == [importMetaEnv |-> TRUE, processEnv |-> TRUE, MODE |-> m, NODE_ENV |-> m]
NodeEnv(m) == [importMetaEnv |-> FALSE, processEnv |-> TRUE, MODE |-> "none", NODE_ENV |-> m]
UnknownEnv == [importMetaEnv |-> FALSE, processEnv |-> FALSE, MODE |-> "none", NODE_ENV |-> "none"]

BuildModes == {"development", "production", "test"}

Envs == {ViteEnv(m) : m \in BuildModes} \cup {NodeEnv(m) : m \in BuildModes} \cup {UnknownEnv}

\* validateFunctions: isDevelopment
IsDevelopment(e) ==
  IF e.importMetaEnv
    THEN e.MODE # "production"
    ELSE IF e.processEnv
      THEN e.NODE_ENV = "development"
      ELSE FALSE

\* the positions (0-based) of the arguments that are no functions
NonCallablePositions(steps) == {i \in 0..(Len(steps) - 1) : ~IsFunction(steps[i + 1])}

\* slip: forEach runs to the end and the last offending argument is named
FirstNonCallableLast(steps) ==
  CHOOSE i \in NonCallablePositions(steps) : \A j \in NonCallablePositions(steps) : j <= i

\* fns.forEach: the first i with !isFunction(fn)
FirstNonCallable(steps) ==
  CHOOSE i \in NonCallablePositions(steps) : \A j \in NonCallablePositions(steps) : i <= j

\* validateFunctions(fns): what it throws, or undefined when it returns
ValidateFunctions(steps, e) ==
  IF IsDevelopment(e) /\ NonCallablePositions(steps) # {}
    THEN PipeValidationError(FirstNonCallable(steps))
    ELSE Undefined

\* withTimeout(promise, timeoutMs, step): the timer wins when the promise
\* settles later than timeoutMs
WithTimeout(promise, timeoutMs, step) ==
  IF promise.dur > timeoutMs
    THEN [ok |-> FALSE, waited |-> timeoutMs, error |-> PipeTimeoutError(timeoutMs, step)]
    ELSE [ok |-> TRUE, waited |-> promise.dur, v |-> promise.v]

\* executeAsyncWithErrorHandling: timeoutMs && isPromise(stepResult)
TimeoutApplies(timeoutMs, stepResult) == timeoutMs # 0 /\ IsPromise(stepResult)

(* --------------------------- retry strategy -------------------------- *)

\* Math.pow(b, n)
RECURSIVE Pow(_, _)
Pow(b, n) == IF n <= 0 THEN 1 ELSE b * Pow(b, n - 1)

\* slip: the attempt that reaches maxRetries is refused
BaseShouldRetryStrict(maxRetries, attempt) == attempt < maxRetries

\* ExponentialBackoffRetryStrategy.shouldRetry: attempt <= this.maxRetries
BaseShouldRetry(maxRetries, attempt) == attempt <= maxRetries

\* ExponentialBackoffRetryStrategy.getDelay: the delays Math.random() may
\* yield, jitter given in percent
GetDelays(baseDelay, backoffFactor, jitterPercent, attempt) ==
  LET delay == baseDelay * Pow(backoffFactor, attempt - 1)
      jitterAmount == (delay * jitterPercent) \div 100
  IN  {IF delay + j < 0 THEN 0 ELSE delay + j : j \in (0 - jitterAmount)..jitterAmount}

\* the messages of the model that include 'fetch', 'network' or 'timeout'
NetworkMessages == {"Failed to fetch", "request timeout"}

\* AuthRetryStrategy.isNetworkError
IsNetworkError(error) == IsErrorInstance(error) /\ error.message \in NetworkMessages

\* typeof error === 'object' && 'code' in error: the records of the model
\* stand for objects, but for a thrown string; code "none" stands for no
\* code property
HasCode(error) ==
  /\ ~("cls" \in DOMAIN error /\ error.cls = "NonError")
  /\ "code" \in DOMAIN error
  /\ error.code # "none"

\* AuthRetryStrategy.isAuthError
IsAuthError(error) ==
  /\ error # Undefined
  /\ HasCode(error)
  /\ error.code \in {"INVALID_CREDENTIALS", "USER_NOT_FOUND", "EMAIL_NOT_CONFIRMED",
                     "INVALID_PASSWORD"}

\* slip: the network test comes first, so a credential failure whose message
\* looks like a network failure is retried
AuthShouldRetryNetworkFirst(maxRetries, attempt, error) ==
  IF error # Undefined /\ ~IsNetworkError(error)
    THEN FALSE
    ELSE BaseShouldRetry(maxRetries, attempt)

\* AuthRetryStrategy.shouldRetry; `error &&`: undefined stands for every
\* falsy value
AuthShouldRetry(maxRetries, attempt, error) ==
  IF error # Undefined /\ IsAuthError(error)
    THEN FALSE
    ELSE IF error # Undefined /\ ~IsNetworkError(error)
      THEN FALSE
      ELSE BaseShouldRetry(maxRetries, attempt)

\* The two strategy classes; the base class does not look at the error.
StrategyClasses == {"ExponentialBackoffRetryStrategy", "AuthRetryStrategy"}

\* strategy.shouldRetry(attempt, error), dispatched on the class
ShouldRetry(s, attempt, error) ==
  IF s.cls = "AuthRetryStrategy"
    THEN AuthShouldRetry(s.maxRetries, attempt, error)
    ELSE BaseShouldRetry(s.maxRetries, attempt)

\* createAuthError(type, message, originalError, retryable) of use-auth.ts: a
\* plain object, no Error and without a code property
CreateAuthError(type, message, originalError, retryable) ==
  [type |-> type, message |-> message, originalError |-> originalError,
   retryable |-> retryable]

\* The error values a strategy is asked about: none; Errors with and without
\* a network-like message; Errors and plain objects that carry a code; a
\* thrown string; the plain object login throws after a returned failure.
StrategyErrors ==
  { Undefined,
    [cls |-> "Error", message |-> "boom", code |-> "none"],
    [cls |-> "Error", message |-> "Failed to fetch", code |-> "none"],
    [cls |-> "Error", message |-> "request timeout", code |-> "none"],
    [cls |-> "Error", message |-> "Invalid login credentials", code |-> "INVALID_PASSWORD"],
    [cls |-> "Error", message |-> "Failed to fetch", code |-> "INVALID_CREDENTIALS"],
    [cls |-> "Error", message |-> "Failed to fetch", code |-> "ECONNRESET"],
    [message |-> "no such user", code |-> "USER_NOT_FOUND"],
    [message |-> "Failed to fetch", code |-> "none"],
    [cls |-> "NonError", message |-> "Failed to fetch", code |-> "none"],
    CreateAuthError("AUTH_ERROR", "Failed to fetch",
                    [cls |-> "Error", message |-> "Failed to fetch", code |-> "none"], FALSE) }

(* ------------------------------- state ------------------------------- *)

VARIABLES
  env,          \* the environment validateFunctions looks at
  mode,         \* which builder made the pipeline: pipe, compose, pipeAsync,
                \* pipeAsyncWithOptions
  fns,          \* the step list, fixed at construction
  value,        \* the value the pipeline is called with
  options,      \* the destructured options of the run
  aborted,      \* options.abortSignal.aborted
  pc,           \* build (the builder is about to be called), raised (the
                \* builder threw), start (the pipeline is built), inflight (a
                \* step was called and has not settled), backoff (withRetry
                \* sleeps), done
  stepIndex,    \* the executor's loop variable i
  currentStep,  \* the executor's currentStep
  result,       \* the executor's result
  retryIndex,   \* withRetry's loop variable i
  lastError,    \* withRetry's lastError
  calls,        \* calls[k]: how often step k was invoked
  argsSeen,     \* argsSeen[k]: the arguments step k was invoked with
  failures,     \* failures[k]: how many invocations of step k threw
  waits,        \* the delays withRetry slept between the attempts of the current step
  elapsed,      \* how long the executor waited for the attempt that settled last
  settled,      \* what that attempt did: how long it took to settle and what it threw
  outcome,      \* what the builder's or the pipeline's caller gets
  strategy,     \* a RetryStrategy instance under test
  asked,        \* the last shouldRetry call made on it and what it returned
  authState,    \* useAuth: the state { user, loadingState, error }
  sessionRefreshTimeoutRef,  \* useAuth: the id setTimeout returned last
  timers,       \* the renewal timers that are armed
  timerSeq,     \* how many timers setTimeout has made
  tasks,        \* the asynchronous calls of the controller's functions, each
                \* with its locals and the await it is suspended at
  channel,      \* notifications of the event channel not yet delivered
  isInitializedRef,    \* useAuth: isInitializedRef.current
  abortControllerRef,  \* useAuth: null, live (a controller that has not
                       \* aborted) or aborted
  subscription, \* none, active or unsubscribed: the listener registration
  cleanup,      \* the last run of the mount effect returned a cleanup that
                \* has not run yet
  effectRuns,   \* how often the mount effect has run
  memoFn,       \* memoize: the function that was memoized
  cache,        \* memoize: the Map from keys to results
  memoCall,     \* the last call of the memoized function and what it returned
  initialValue, \* usePersist: the initialValue argument
  persistValue, \* usePersist: the state `value`
  localStorage, \* the items stored under the hook's key: one or none
  isInternalUpdate,  \* usePersist: isInternalUpdate.current
  debouncedWrite,    \* the values of the debounced writes that are pending:
                     \* one or none
  writeEffectDue,    \* a render changed [key, value] and the write effect has
                     \* not run yet
  lastChange,   \* which operation changed `value` or the item last
  updates       \* how many operations the application and other tabs made

pipeVars ==
  <<env, mode, fns, value, options, aborted, pc, stepIndex, currentStep, result,
    retryIndex, lastError, calls, argsSeen, failures, waits, elapsed, settled,
    outcome>>

strategyVars == <<strategy, asked>>

mountVars == <<isInitializedRef, abortControllerRef, subscription, cleanup, effectRuns>>

memoVars == <<memoFn, cache, memoCall>>

persistVars ==
  <<initialValue, persistValue, localStorage, isInternalUpdate, debouncedWrite,
    writeEffectDue, lastChange, updates>>

utilVars == <<memoVars, persistVars>>

authVars ==
  <<authState, sessionRefreshTimeoutRef, timers, timerSeq, tasks, channel, mountVars>>

vars == <<pipeVars, strategyVars, utilVars, authVars>>

Modes == {"pipe", "compose", "pipeAsync", "pipeAsyncWithOptions"}

\* options = {} : no timeout, one attempt, the default delay, no signal
DefaultOptions ==
  [timeoutMs |-> 0, retryAttempts |-> DefaultRetryAttempts,
   retryDelayMs |-> DefaultRetryDelayMs, hasSignal |-> FALSE]

\* timeoutMs: absent (0 is as good as absent: the code tests `timeoutMs &&`)
\* or set; retryDelayMs: 0, positive, or absent and so the default
OptionRecords ==
  [timeoutMs : {0, MaxTimeout}, retryAttempts : 1..MaxAttempts,
   retryDelayMs : {0, MaxDelay, DefaultRetryDelayMs}, hasSignal : BOOLEAN]

\* Step lists whose every element is a function.  Tracing (enableTrace,
\* operationName) only logs and is left out.
StepLists == UNION {[1..n -> FnNames] : n \in 0..MaxSteps}

\* Argument lists as a caller may hand them to a builder: functions, null
\* and a number.
ArgLists == UNION {[1..n -> {"add"} \cup NonCallables] : n \in 0..MaxSteps}

Pending == [status |-> "pending"]
Resolved(v) == [status |-> "resolved", value |-> v]
Rejected(error) == [status |-> "rejected", error |-> error]

NothingSettled == [dur |-> 0, threw |-> FALSE, error |-> Undefined]

\* the executor's locals and the observations before the pipeline is called
FreshRun ==
  /\ stepIndex = 0
  /\ currentStep = 0
  /\ result = value
  /\ retryIndex = 0
  /\ lastError = Undefined
  /\ calls = [k \in 1..Len(fns) |-> 0]
  /\ argsSeen = [k \in 1..Len(fns) |-> {}]
  /\ failures = [k \in 1..Len(fns) |-> 0]
  /\ waits = <<>>
  /\ elapsed = 0
  /\ settled = NothingSettled
  /\ outcome = Pending

\* A pipeline that a development build under Vite has built from functions
\* (validateFunctions returns for such a list in every environment).
PipeInit ==
  /\ env = ViteEnv("development")
  /\ mode \in Modes
  /\ fns \in StepLists
  /\ value \in 0..MaxInput
  /\ options \in IF mode = "pipeAsyncWithOptions" THEN OptionRecords ELSE {DefaultOptions}
  /\ aborted \in IF options.hasSignal THEN BOOLEAN ELSE {FALSE}
  /\ pc = "start"
  /\ FreshRun

\* no strategy instance is under test
NoStrategy == strategy = Undefined /\ asked = Undefined

\* JavaScript's null
Null == [cls |-> "null"]

\* sessionRefreshTimeoutRef.current === null
NoTimer == 0

\* useState's initial value
InitialAuthState == [user |-> Null, loadingState |-> "INITIALIZING", error |-> Null]

\* no controller is mounted
NoController ==
  /\ authState = InitialAuthState
  /\ sessionRefreshTimeoutRef = NoTimer
  /\ timers = {}
  /\ timerSeq = 0
  /\ tasks = <<>>
  /\ channel = <<>>
  /\ isInitializedRef = FALSE
  /\ abortControllerRef = "null"
  /\ subscription = "none"
  /\ cleanup = FALSE
  /\ effectRuns = 0

\* no function is memoized
NoMemo == memoFn = Undefined /\ cache = <<>> /\ memoCall = Undefined

\* no usePersist hook is mounted
NoPersist ==
  /\ initialValue = Undefined
  /\ persistValue = Undefined
  /\ localStorage = {}
  /\ isInternalUpdate = FALSE
  /\ debouncedWrite = {}
  /\ writeEffectDue = FALSE
  /\ lastChange = "none"
  /\ updates = 0

NoUtil == NoMemo /\ NoPersist

Init == PipeInit /\ NoStrategy /\ NoController /\ NoUtil

(* ---------------------------- the executors -------------------------- *)

\* The executor's locals as one record, so that a run of straight-line code
\* is a composition of updates.
Locals ==
  [pc |-> pc, stepIndex |-> stepIndex, currentStep |-> currentStep,
   result |-> result, retryIndex |-> retryIndex, lastError |-> lastError,
   calls |-> calls, argsSeen |-> argsSeen, waits |-> waits, outcome |-> outcome]

Become(c) ==
  /\ pc' = c.pc
  /\ stepIndex' = c.stepIndex
  /\ currentStep' = c.currentStep
  /\ result' = c.result
  /\ retryIndex' = c.retryIndex
  /\ lastError' = c.lastError
  /\ calls' = c.calls
  /\ argsSeen' = c.argsSeen
  /\ waits' = c.waits
  /\ outcome' = c.outcome

Finish(c, o) == [c EXCEPT !.pc = "done", !.outcome = o]

\* fn(result): step k (0-based) is called with the current result
CallStep(c, k) ==
  [c EXCEPT !.pc = "inflight",
            !.calls[k + 1] = @ + 1,
            !.argsSeen[k + 1] = @ \cup {c.result}]

\* slip: the loop steps by two and skips every other step
NextIndexSkipping(k) == k + 2

\* the loop variable after an iteration: i++
NextIndex(k) == k + 1

\* slip: the empty pipeline looks at the abort signal like any other
EmptyPipelineChecked(c, v) ==
  IF options.hasSignal /\ aborted
    THEN Finish(c, Rejected(PipeAbortError(0)))
    ELSE Finish(c, Resolved(v))

\* the closure the builders return for fns.length === 0: (value) => value
EmptyPipeline(c, v) == Finish(c, Resolved(v))

\* executeWithErrorHandling, top of the loop with i = k: past the last step
\* it returns result, else it sets currentStep and calls the step; a falsy
\* step makes it throw an Error, the call of any other value that is no
\* function a TypeError
SyncLoop(c, k) ==
  IF k >= Len(fns)
    THEN Finish([c EXCEPT !.stepIndex = k], Resolved(c.result))
    ELSE LET c1 == [c EXCEPT !.stepIndex = k, !.currentStep = k]
         IN  IF IsFalsy(fns[k + 1])
               THEN Finish(c1, Rejected(SyncCatch(UndefinedStepError(k), k)))
               ELSE IF ~IsFunction(fns[k + 1])
                 THEN Finish(c1, Rejected(SyncCatch(NotAFunctionError, k)))
                 ELSE CallStep(c1, k)

\* slip: the walk skips every other step
ComposeNextIndexSkipping(i) == i - 2

\* the loop variable of compose after an iteration: i--
ComposeNextIndex(i) == i - 1

\* compose, top of the loop with loop variable i: below 0 it returns result,
\* else it sets currentStep and calls fns[i]
ComposeLoop(c, i) ==
  IF i < 0
    THEN Finish([c EXCEPT !.stepIndex = i], Resolved(c.result))
    ELSE LET c1 == [c EXCEPT !.stepIndex = i, !.currentStep = ComposeStep(Len(fns), i)]
         IN  IF ~IsFunction(fns[i + 1])
               THEN Finish(c1, Rejected(ComposeCatch(NotAFunctionError, c1.currentStep)))
               ELSE CallStep(c1, i)

\* slip: the loop never looks at the signal
AbortIgnored(hasSignal, isAborted) == FALSE

\* the abort check of executeAsyncWithErrorHandling: abortSignal?.aborted
AbortObserved(hasSignal, isAborted) == hasSignal /\ isAborted

\* the catch of withRetry after attempt retryIndex threw error
RetryCatch(c, error) ==
  LET last == ToError(error)
  IN  IF IsLastAttempt(c.retryIndex, options.retryAttempts)
        THEN Finish([c EXCEPT !.lastError = last],
                    Rejected(AsyncCatch(PipeRetryError(options.retryAttempts, last),
                                        c.currentStep)))
        ELSE [c EXCEPT !.lastError = last, !.pc = "backoff",
                       !.waits = Append(@, BackoffDelay(options.retryDelayMs, c.retryIndex))]

\* executeStep, called directly or by withRetry: it calls the step; the call
\* of a value that is no function throws a TypeError inside executeStep, so
\* withRetry catches it like what a step throws
Attempt(c, k) ==
  IF IsFunction(fns[k + 1])
    THEN CallStep(c, k)
    ELSE IF UsesRetry(options.retryAttempts)
      THEN RetryCatch(c, NotAFunctionError)
      ELSE Finish(c, Rejected(AsyncCatch(NotAFunctionError, c.currentStep)))

\* executeAsyncWithErrorHandling, top of the loop with i = k: past the last
\* step it returns result; else it checks the abort signal (before it sets
\* currentStep), throws an Error for a falsy step, and calls the step:
\* through withRetry when retryAttempts > 1
AsyncLoop(c, k) ==
  IF k >= Len(fns)
    THEN Finish([c EXCEPT !.stepIndex = k], Resolved(c.result))
    ELSE IF AbortObserved(options.hasSignal, aborted)
      THEN Finish([c EXCEPT !.stepIndex = k],
                  Rejected(AsyncCatch(PipeAbortError(k), c.currentStep)))
      ELSE LET c1 == [c EXCEPT !.stepIndex = k, !.currentStep = k,
                               !.retryIndex = 0, !.lastError = Undefined,
                               !.waits = <<>>]
           IN  IF IsFalsy(fns[k + 1])
                 THEN Finish(c1, Rejected(AsyncCatch(UndefinedStepError(k), k)))
                 ELSE Attempt(c1, k)

\* What a step does when it is called: it returns a plain value or a promise
\* that settles after dur, and it returns normally or throws one of
\* ThrownValues (a rejected promise is a throw at the await).
\* A promise settles at once or later than every timeout of the model.
Durations == {0, MaxTimeout + 1}

AsyncBehaviours ==
  {[isPromise |-> FALSE, dur |-> 0]} \cup [isPromise : {TRUE}, dur : Durations]

Outcomes ==
  {[threw |-> FALSE, error |-> Undefined]} \cup [threw : {TRUE}, error : ThrownValues]

\* the executor after `await executeStep()` (or withRetry) handed back
\* stepResult for step k: the timeout is applied to stepResult if it is a
\* promise, the result is stored and the loop goes on
AfterStep(c, k, stepResult) ==
  IF TimeoutApplies(options.timeoutMs, stepResult)
    THEN LET t == WithTimeout(stepResult, options.timeoutMs, k)
         IN  IF t.ok
               THEN AsyncLoop([c EXCEPT !.result = t.v], NextIndex(k))
               ELSE Finish(c, Rejected(AsyncCatch(t.error, c.currentStep)))
    ELSE AsyncLoop([c EXCEPT !.result = stepResult.v], NextIndex(k))

(* ------------------------------ actions ------------------------------ *)

\* pipe(...fns)(value): the empty pipeline is the identity closure, any other
\* enters executeWithErrorHandling and calls its first step
PipeCall ==
  /\ mode = "pipe"
  /\ pc = "start"
  /\ Become(IF Len(fns) = 0 THEN EmptyPipeline(Locals, value) ELSE SyncLoop(Locals, 0))
  /\ UNCHANGED <<strategyVars, utilVars, authVars, env, mode, fns, value, options, aborted, failures, elapsed, settled>>

\* the step called by executeWithErrorHandling returns or throws
StepReturns ==
  /\ mode = "pipe"
  /\ pc = "inflight"
  /\ \E out \in Outcomes :
       /\ settled' = [dur |-> 0, threw |-> out.threw, error |-> out.error]
       /\ failures' = IF out.threw THEN [failures EXCEPT ![stepIndex + 1] = @ + 1] ELSE failures
       /\ Become(IF out.threw
                   THEN Finish(Locals, Rejected(SyncCatch(out.error, currentStep)))
                   ELSE SyncLoop([Locals EXCEPT !.result = ApplyFn(fns[stepIndex + 1], result)],
                                 NextIndex(stepIndex)))
  /\ UNCHANGED <<strategyVars, utilVars, authVars, env, mode, fns, value, options, aborted, elapsed>>

\* compose(...fns)(value): the empty composition is the identity closure, any
\* other walks the steps from the last to the first
ComposeCall ==
  /\ mode = "compose"
  /\ pc = "start"
  /\ Become(IF Len(fns) = 0
              THEN EmptyPipeline(Locals, value)
              ELSE ComposeLoop(Locals, Len(fns) - 1))
  /\ UNCHANGED <<strategyVars, utilVars, authVars, env, mode, fns, value, options, aborted, failures, elapsed, settled>>

\* the step called by compose returns or throws
ComposeStepReturns ==
  /\ mode = "compose"
  /\ pc = "inflight"
  /\ \E out \in Outcomes :
       /\ settled' = [dur |-> 0, threw |-> out.threw, error |-> out.error]
       /\ failures' = IF out.threw THEN [failures EXCEPT ![stepIndex + 1] = @ + 1] ELSE failures
       /\ Become(IF out.threw
                   THEN Finish(Locals, Rejected(ComposeCatch(out.error, currentStep)))
                   ELSE ComposeLoop([Locals EXCEPT !.result = ApplyFn(fns[stepIndex + 1], result)],
                                    ComposeNextIndex(stepIndex)))
  /\ UNCHANGED <<strategyVars, utilVars, authVars, env, mode, fns, value, options, aborted, elapsed>>

\* pipeAsync(...fns)(value) and pipeAsyncWithOptions(options, ...fns)(value),
\* up to the first await
PipeAsyncCall ==
  /\ mode \in {"pipeAsync", "pipeAsyncWithOptions"}
  /\ pc = "start"
  /\ Become(IF Len(fns) = 0 THEN EmptyPipeline(Locals, value) ELSE AsyncLoop(Locals, 0))
  /\ UNCHANGED <<strategyVars, utilVars, authVars, env, mode, fns, value, options, aborted, failures, elapsed, settled>>

\* the attempt in flight settles: executeStep awaits what the step returned,
\* then the executor runs up to its next await
StepSettles ==
  /\ mode \in {"pipeAsync", "pipeAsyncWithOptions"}
  /\ pc = "inflight"
  /\ \E beh \in AsyncBehaviours, out \in Outcomes :
       LET fnResult == IF beh.isPromise
                         THEN PromiseOf(ApplyFn(fns[stepIndex + 1], result), beh.dur)
                         ELSE PlainValue(ApplyFn(fns[stepIndex + 1], result))
           stepResult == IF IsPromise(fnResult) THEN Await(fnResult) ELSE fnResult
       IN  /\ settled' = [dur |-> beh.dur, threw |-> out.threw, error |-> out.error]
           /\ elapsed' = fnResult.dur
           /\ failures' = IF out.threw THEN [failures EXCEPT ![stepIndex + 1] = @ + 1] ELSE failures
           /\ Become(IF out.threw
                       THEN IF UsesRetry(options.retryAttempts)
                              THEN RetryCatch(Locals, out.error)
                              ELSE Finish(Locals, Rejected(AsyncCatch(out.error, currentStep)))
                       ELSE AfterStep(Locals, stepIndex, stepResult))
  /\ UNCHANGED <<strategyVars, utilVars, authVars, env, mode, fns, value, options, aborted>>

\* withRetry's sleep ends: the next attempt calls the step again
RetryTimerFires ==
  /\ pc = "backoff"
  /\ Become(Attempt([Locals EXCEPT !.retryIndex = @ + 1], stepIndex))
  /\ UNCHANGED <<strategyVars, utilVars, authVars, env, mode, fns, value, options, aborted, failures, elapsed, settled>>

\* the owner of the AbortController aborts while the pipeline is suspended
AbortSignalled ==
  /\ options.hasSignal
  /\ ~aborted
  /\ pc \in {"inflight", "backoff"}
  /\ aborted' = TRUE
  /\ UNCHANGED <<strategyVars, utilVars, authVars, env, mode, fns, value, options, pc, stepIndex, currentStep, result,
                 retryIndex, lastError, calls, argsSeen, failures, waits, elapsed,
                 settled, outcome>>

\* pipe(...fns), compose(...fns), pipeAsync(...fns) or
\* pipeAsyncWithOptions(options, ...fns): validateFunctions throws, or the
\* builder returns the pipeline
Build ==
  /\ pc = "build"
  /\ LET thrown == ValidateFunctions(fns, env)
     IN  IF thrown # Undefined
           THEN pc' = "raised" /\ outcome' = Rejected(thrown)
           ELSE pc' = "start" /\ outcome' = outcome
  /\ UNCHANGED <<strategyVars, utilVars, authVars, env, mode, fns, value, options, aborted, stepIndex, currentStep,
                 result, retryIndex, lastError, calls, argsSeen, failures, waits,
                 elapsed, settled>>

Next ==
  \/ PipeCall
  \/ StepReturns
  \/ ComposeCall
  \/ ComposeStepReturns
  \/ PipeAsyncCall
  \/ StepSettles
  \/ RetryTimerFires
  \/ AbortSignalled

Spec == Init /\ [][Next]_vars

\* Construction and invocation: the builder is called in any environment
\* with any argument list; a pipeline it returns is then invoked.
BuildOptions ==
  {DefaultOptions,
   [timeoutMs |-> 0, retryAttempts |-> 2, retryDelayMs |-> 0, hasSignal |-> TRUE]}

BuildInit ==
  /\ env \in Envs
  /\ mode \in Modes
  /\ fns \in ArgLists
  /\ value \in 0..MaxInput
  /\ options \in IF mode = "pipeAsyncWithOptions" THEN BuildOptions ELSE {DefaultOptions}
  /\ aborted = FALSE
  /\ pc = "build"
  /\ FreshRun
  /\ NoStrategy
  /\ NoController
  /\ NoUtil

BuildNext == Build \/ Next

SpecBuild == BuildInit /\ [][BuildNext]_vars

(* ------------------------- a strategy under test -------------------- *)

\* no pipeline is built
NoPipeline ==
  /\ env = ViteEnv("development")
  /\ mode = "pipe"
  /\ fns = <<>>
  /\ value = 0
  /\ options = DefaultOptions
  /\ aborted = FALSE
  /\ pc = "none"
  /\ FreshRun

\* new ExponentialBackoffRetryStrategy(maxRetries) or
\* new AuthRetryStrategy(maxRetries)
StrategyInit ==
  /\ strategy \in [cls : StrategyClasses, maxRetries : 0..MaxRetries]
  /\ asked = Undefined
  /\ NoPipeline
  /\ NoController
  /\ NoUtil

\* strategy.shouldRetry(attempt, error)
ShouldRetryCall ==
  /\ \E attempt \in 1..(MaxRetries + 1), error \in StrategyErrors :
       asked' = [attempt |-> attempt, error |-> error,
                 decision |-> ShouldRetry(strategy, attempt, error)]
  /\ UNCHANGED <<strategy, pipeVars, authVars, utilVars>>

StrategyNext == ShouldRetryCall

SpecStrategy == StrategyInit /\ [][StrategyNext]_vars

(* -------------------- the authentication controller ------------------ *)
(* useAuth of src/hooks/use-auth.ts.  A behaviour of SpecAuth starts when  *)
(* the controller has mounted and checkInitialSession has made its first   *)
(* session query.  Every asynchronous function call is a task; a task runs *)
(* from one await to the next in one step, so the tasks interleave at      *)
(* their awaits.  What the collaborator (the Supabase client) answers is   *)
(* chosen when a call settles.  The length of a retry sleep is not kept:   *)
(* a sleep is a point where other tasks run.                               *)

\* new AuthRetryStrategy(3, 1000, 2, 0.2)
ProfileRetryStrategy ==
  [cls |-> "AuthRetryStrategy", maxRetries |-> 3, baseDelay |-> 1000,
   backoffFactor |-> <<2, 1>>, jitterPercent |-> 20]

\* new AuthRetryStrategy(2, 500, 1.5, 0.1)
SessionRetryStrategy ==
  [cls |-> "AuthRetryStrategy", maxRetries |-> 2, baseDelay |-> 500,
   backoffFactor |-> <<3, 2>>, jitterPercent |-> 10]

\* What the collaborator reports: a transport failure, a rejected password,
\* a failure of another kind.
FetchFailed == [cls |-> "Error", message |-> "Failed to fetch", code |-> "none"]
InvalidPassword ==
  [cls |-> "Error", message |-> "Invalid login credentials", code |-> "INVALID_PASSWORD"]
ServerFailure == [cls |-> "Error", message |-> "boom", code |-> "none"]

\* the profile row of the signed-in user
Profile == [id |-> "u1"]

\* A session of that user; remaining stands for expires_at * 1000 -
\* Date.now() when the renewal timer is armed: ten minutes or five.
Sessions == {[user |-> [id |-> "u1"], remaining |-> r] : r \in {600000, 300000}}

\* isNetworkError of use-auth.ts: the message of an Error ('' for any other
\* value) includes 'fetch', 'network' or 'timeout'
HookIsNetworkError(error) == IsErrorInstance(error) /\ error.message \in NetworkMessages

\* processAuthError
ProcessAuthError(error) ==
  IF HookIsNetworkError(error)
    THEN CreateAuthError("NETWORK_ERROR", "check the network connection", error, TRUE)
    ELSE CreateAuthError("PROFILE_ERROR", "the profile cannot be loaded", error, FALSE)

\* slip: a session failure that is no network failure is offered for retry
ProcessSessionErrorRetryable(error) ==
  IF HookIsNetworkError(error)
    THEN CreateAuthError("NETWORK_ERROR", "check the network connection", error, TRUE)
    ELSE CreateAuthError("SESSION_ERROR", "the initial session check failed", error, TRUE)

\* processSessionError
ProcessSessionError(error) ==
  IF HookIsNetworkError(error)
    THEN CreateAuthError("NETWORK_ERROR", "check the network connection", error, TRUE)
    ELSE CreateAuthError("SESSION_ERROR", "the initial session check failed", error, FALSE)

\* slip: every login failure is offered for retry
LoginErrorRetryable(error) ==
  IF HookIsNetworkError(error)
    THEN CreateAuthError("NETWORK_ERROR", "check the network connection", error, TRUE)
    ELSE CreateAuthError("AUTH_ERROR", "login failed", error, TRUE)

\* the pipe of login that classifies lastError once the loop is left
LoginError(error) ==
  IF HookIsNetworkError(error)
    THEN CreateAuthError("NETWORK_ERROR", "check the network connection", error, TRUE)
    ELSE CreateAuthError("AUTH_ERROR", "login failed", error, FALSE)

\* slip: the error of the else branches is marked retryable
ProfileNotFoundRetryable ==
  CreateAuthError("PROFILE_ERROR", "the profile was not found", Undefined, TRUE)

\* the error the else branches store when fetchUserProfile returned null
ProfileNotFound == CreateAuthError("PROFILE_ERROR", "the profile was not found", Undefined, FALSE)

NoOutcome == [how |-> "none", error |-> Undefined]

\* A call of kind (checkInitialSession, login, logout, handleAuthChange) with
\* its locals: attempt and lastError of its own retry loop, fAttempt and
\* fLastError of the loop of fetchUserProfile it calls; calls and queries
\* count the collaborator's auth calls and profile queries it made, settled
\* is the collaborator's last answer, result what its caller gets.
NewTask(kind, event, session) ==
  [kind |-> kind, event |-> event, session |-> session, pc |-> "new",
   attempt |-> 1, lastError |-> Undefined, calls |-> 0,
   fAttempt |-> 0, fLastError |-> Undefined, queries |-> 0,
   settled |-> NoOutcome, result |-> Pending]

\* the return or the throw of a call: what the caller gets remains, the
\* call's arguments, locals and pending collaborator call are gone
Done(t, res) == [NewTask(t.kind, t.event, Null) EXCEPT !.pc = "done", !.result = res]

\* The hook's state and refs as one record, so that a run of straight-line
\* code is a composition of updates.
World ==
  [authState |-> authState, sessionRefreshTimeoutRef |-> sessionRefreshTimeoutRef,
   timers |-> timers, timerSeq |-> timerSeq, channel |-> channel]

SetWorld(w) ==
  /\ authState' = w.authState
  /\ sessionRefreshTimeoutRef' = w.sessionRefreshTimeoutRef
  /\ timers' = w.timers
  /\ timerSeq' = w.timerSeq
  /\ channel' = w.channel

\* task i ran up to its next await (or to its end)
Commit(i, r) == tasks' = [tasks EXCEPT ![i] = r.t] /\ SetWorld(r.w)

\* a new call ran up to its first await
Spawn(r) == tasks' = Append(tasks, r.t) /\ SetWorld(r.w)

\* slip: the timer of the ref is left armed
ClearRefreshTimeoutForgotten(w) == w

\* if (sessionRefreshTimeoutRef.current) clearTimeout(sessionRefreshTimeoutRef.current)
ClearRefreshTimeout(w) ==
  IF w.sessionRefreshTimeoutRef # NoTimer
    THEN [w EXCEPT !.timers = {tm \in @ : tm.id # w.sessionRefreshTimeoutRef}]
    ELSE w

\* slip: the timer is armed for the expiry itself
SetupSessionRefreshAtExpiry(w, session) ==
  LET w1 == ClearRefreshTimeout(w)
      refreshTime == session.remaining
  IN  IF refreshTime > 0
        THEN [w1 EXCEPT !.timers = @ \cup {[id |-> w.timerSeq + 1, delay |-> refreshTime]},
                        !.sessionRefreshTimeoutRef = w.timerSeq + 1,
                        !.timerSeq = @ + 1]
        ELSE w1

\* setupSessionRefresh(session): the armed timer is cleared, and a new one is
\* armed for the expiry less five minutes when that lies ahead
SetupSessionRefresh(w, session) ==
  LET w1 == ClearRefreshTimeout(w)
      refreshTime == session.remaining - RefreshLeadMs
  IN  IF refreshTime > 0
        THEN [w1 EXCEPT !.timers = @ \cup {[id |-> w.timerSeq + 1, delay |-> refreshTime]},
                        !.sessionRefreshTimeoutRef = w.timerSeq + 1,
                        !.timerSeq = @ + 1]
        ELSE w1

\* slip: the profile is committed and the renewal timer is forgotten
AfterFetchWithoutTimer(t, w, profile) ==
  IF profile # Null
    THEN [t |-> Done(t, Resolved(Undefined)),
          w |-> [w EXCEPT
                   !.authState = [user |-> profile, loadingState |-> "IDLE", error |-> Null]]]
    ELSE [t |-> Done(t, Resolved(Undefined)),
          w |-> [w EXCEPT
                   !.authState = [user |-> Null, loadingState |-> "IDLE",
                                  error |-> ProfileNotFound]]]

\* checkInitialSession and the SIGNED_IN case of handleAuthChange after
\* `const profile = await fetchUserProfile(...)`
AfterFetch(t, w, profile) ==
  IF profile # Null
    THEN [t |-> Done(t, Resolved(Undefined)),
          w |-> [SetupSessionRefresh(w, t.session) EXCEPT
                   !.authState = [user |-> profile, loadingState |-> "IDLE", error |-> Null]]]
    ELSE [t |-> Done(t, Resolved(Undefined)),
          w |-> [w EXCEPT
                   !.authState = [user |-> Null, loadingState |-> "IDLE",
                                  error |-> ProfileNotFound]]]

\* the TOKEN_REFRESHED case of handleAuthChange after the fetch: a profile
\* is committed with the functional update, no profile is passed over
AfterFetchTokenRefreshed(t, w, profile) ==
  IF profile # Null
    THEN [t |-> Done(t, Resolved(Undefined)),
          w |-> [w EXCEPT !.authState.user = profile,
                          !.authState.loadingState = "IDLE",
                          !.authState.error = Null]]
    ELSE [t |-> Done(t, Resolved(Undefined)), w |-> w]

\* refreshUser after the fetch
AfterFetchRefreshUser(t, w, profile) ==
  [t |-> Done(t, Resolved(Undefined)),
   w |-> [w EXCEPT
            !.authState = [user |-> profile, loadingState |-> "IDLE",
                           error |-> IF profile # Null THEN Null ELSE ProfileNotFound]]]

\* fetchUserProfile returns to the function that awaits it
FetchReturns(t, w, profile) ==
  CASE t.kind = "refreshUser" -> AfterFetchRefreshUser(t, w, profile)
    [] t.event = "TOKEN_REFRESHED" -> AfterFetchTokenRefreshed(t, w, profile)
    [] OTHER -> AfterFetch(t, w, profile)

\* fetchUserProfile after its loop: it stores processAuthError(lastError) and
\* returns null
FetchGiveUp(t, w) ==
  FetchReturns(t, [w EXCEPT !.authState.error = ProcessAuthError(t.fLastError)], Null)

\* fetchUserProfile, head of the loop: while (strategy.shouldRetry(attempt, lastError))
FetchLoop(t, w) ==
  IF ShouldRetry(ProfileRetryStrategy, t.fAttempt, t.fLastError)
    THEN [t |-> [t EXCEPT !.pc = "query", !.queries = @ + 1], w |-> w]
    ELSE FetchGiveUp(t, w)

\* fetchUserProfile(userId) up to its first await
FetchUserProfile(t, w) == FetchLoop([t EXCEPT !.fAttempt = 1, !.fLastError = Undefined], w)

\* the catch of fetchUserProfile
FetchCatch(t, w, error) ==
  LET t1 == [t EXCEPT !.fLastError = error]
  IN  IF ShouldRetry(ProfileRetryStrategy, t.fAttempt + 1, error)
        THEN [t |-> [t1 EXCEPT !.pc = "fetchSleep"], w |-> w]
        ELSE FetchGiveUp(t1, w)

\* checkInitialSession after its loop
SessionGiveUp(t, w) ==
  [t |-> Done(t, Resolved(Undefined)),
   w |-> [w EXCEPT !.authState = [user |-> Null, loadingState |-> "IDLE",
                                  error |-> ProcessSessionError(t.lastError)]]]

\* checkInitialSession, head of the loop
SessionLoop(t, w) ==
  IF ShouldRetry(SessionRetryStrategy, t.attempt, t.lastError)
    THEN [t |-> [t EXCEPT !.pc = "getSession", !.calls = @ + 1], w |-> w]
    ELSE SessionGiveUp(t, w)

\* slip: the decision of the base strategy, which does not look at the error
SessionCatchBaseDecision(t, w, error) ==
  LET t1 == [t EXCEPT !.lastError = error]
  IN  IF BaseShouldRetry(SessionRetryStrategy.maxRetries, t.attempt + 1)
        THEN [t |-> [t1 EXCEPT !.pc = "sessionSleep"], w |-> w]
        ELSE SessionGiveUp(t1, w)

\* the catch of checkInitialSession
SessionCatch(t, w, error) ==
  LET t1 == [t EXCEPT !.lastError = error]
  IN  IF ShouldRetry(SessionRetryStrategy, t.attempt + 1, error)
        THEN [t |-> [t1 EXCEPT !.pc = "sessionSleep"], w |-> w]
        ELSE SessionGiveUp(t1, w)

\* login after its loop: the error is classified, stored and thrown
LoginGiveUp(t, w) ==
  LET authError == LoginError(t.lastError)
  IN  [t |-> Done(t, Rejected(authError)),
       w |-> [w EXCEPT !.authState.loadingState = "IDLE", !.authState.error = authError]]

\* login, head of the loop
LoginLoop(t, w) ==
  IF ShouldRetry(SessionRetryStrategy, t.attempt, t.lastError)
    THEN [t |-> [t EXCEPT !.pc = "signIn", !.calls = @ + 1], w |-> w]
    ELSE LoginGiveUp(t, w)

\* slip: the decision of the base strategy, which does not look at the error
LoginCatchBaseDecision(t, w, error) ==
  LET t1 == [t EXCEPT !.lastError = error]
  IN  IF BaseShouldRetry(SessionRetryStrategy.maxRetries, t.attempt + 1)
        THEN [t |-> [t1 EXCEPT !.pc = "loginSleep"], w |-> w]
        ELSE LoginGiveUp(t1, w)

\* the catch of login
LoginCatch(t, w, error) ==
  LET t1 == [t EXCEPT !.lastError = error]
  IN  IF ShouldRetry(SessionRetryStrategy, t.attempt + 1, error)
        THEN [t |-> [t1 EXCEPT !.pc = "loginSleep"], w |-> w]
        ELSE LoginGiveUp(t1, w)

\* slip: login itself puts loading back to Idle when the sign-in succeeded
LoginSucceededWritingIdle(t, w, session) ==
  [t |-> Done(t, Resolved([success |-> TRUE])),
   w |-> [w EXCEPT !.authState.loadingState = "IDLE",
                   !.channel = Append(@, [event |-> "SIGNED_IN", session |-> session])]]

\* login when signInWithPassword reported no error: return { success: true };
\* the collaborator notifies its listeners of the new session
LoginSucceeded(t, w, session) ==
  [t |-> Done(t, Resolved([success |-> TRUE])),
   w |-> [w EXCEPT !.channel = Append(@, [event |-> "SIGNED_IN", session |-> session])]]

\* what supabase.auth.getSession() answers: a session, none, a returned
\* error, a thrown exception
GetSessionOutcomes ==
  {[how |-> "ok", error |-> Undefined, session |-> s] : s \in Sessions \cup {Null}}
    \cup [how : {"returned", "thrown"}, error : {FetchFailed, ServerFailure}, session : {Null}]

\* what the profile query answers: the row, no row, a failure (a returned
\* error is thrown by executeProfileQuery as it is)
QueryOutcomes ==
  {[how |-> "ok", error |-> Undefined, data |-> d] : d \in {Profile, Null}}
    \cup [how : {"thrown"}, error : {FetchFailed, ServerFailure}, data : {Null}]

\* what supabase.auth.signInWithPassword() answers
SignInOutcomes ==
  {[how |-> "ok", error |-> Undefined, session |-> s] : s \in Sessions}
    \cup [how : {"returned", "thrown"},
          error : {FetchFailed, InvalidPassword}, session : {Null}]

\* what supabase.auth.signOut() answers
SignOutOutcomes ==
  {[how |-> "ok", error |-> Undefined]}
    \cup [how : {"returned", "thrown"}, error : {FetchFailed}]

\* The state after the first render: useState and useRef have their initial
\* values, no effect has run.
AuthInit ==
  /\ NoController
  /\ NoPipeline
  /\ NoStrategy
  /\ NoUtil

\* checkInitialSession: getSession settles
GetSessionSettles ==
  \E i \in DOMAIN tasks, out \in GetSessionOutcomes :
    /\ tasks[i].kind = "checkInitialSession"
    /\ tasks[i].pc = "getSession"
    /\ LET t == [tasks[i] EXCEPT !.settled = [how |-> out.how, error |-> out.error]]
       IN  Commit(i,
             IF out.how # "ok"
               THEN SessionCatch(t, World, out.error)
               ELSE IF out.session # Null
                 THEN FetchUserProfile(
                        [t EXCEPT !.session = out.session],
                        [World EXCEPT !.authState.loadingState = "REFRESHING_PROFILE"])
                 ELSE [t |-> Done(t, Resolved(Undefined)),
                       w |-> [World EXCEPT
                                !.authState = [user |-> Null, loadingState |-> "IDLE",
                                               error |-> Null]]])
    /\ UNCHANGED <<pipeVars, strategyVars, utilVars, mountVars>>

\* checkInitialSession: the sleep before the next session query ends
SessionTimerFires ==
  \E i \in DOMAIN tasks :
    /\ tasks[i].pc = "sessionSleep"
    /\ Commit(i, SessionLoop([tasks[i] EXCEPT !.attempt = @ + 1], World))
    /\ UNCHANGED <<pipeVars, strategyVars, utilVars, mountVars>>

\* fetchUserProfile: executeProfileQuery settles
ProfileQuerySettles ==
  \E i \in DOMAIN tasks, out \in QueryOutcomes :
    /\ tasks[i].pc = "query"
    /\ LET t == [tasks[i] EXCEPT !.settled = [how |-> out.how, error |-> out.error]]
       IN  Commit(i,
             IF out.how = "ok"
               THEN FetchReturns(t, World, out.data)
               ELSE FetchCatch(t, World, out.error))
    /\ UNCHANGED <<pipeVars, strategyVars, utilVars, mountVars>>

\* fetchUserProfile: the sleep before the next profile query ends
FetchTimerFires ==
  \E i \in DOMAIN tasks :
    /\ tasks[i].pc = "fetchSleep"
    /\ Commit(i, FetchLoop([tasks[i] EXCEPT !.fAttempt = @ + 1], World))
    /\ UNCHANGED <<pipeVars, strategyVars, utilVars, mountVars>>

\* how many times the application has called one of the hook's functions,
\* which it does once the hook has mounted (isInitializedRef),
\* and the renewal timer has fired
Operations ==
  Cardinality({i \in DOMAIN tasks :
                 \/ tasks[i].kind \in {"login", "logout", "refreshUser", "retryLastOperation",
                                       "sessionRefresh"}
                 \/ tasks[i].event = "retryLastOperation"})

\* login(email, password) up to its first await
LoginCall ==
  /\ isInitializedRef
  /\ Operations < MaxOperations
  /\ Spawn(LoginLoop(NewTask("login", "none", Null),
                     [World EXCEPT !.authState.loadingState = "SIGNING_IN",
                                   !.authState.error = Null]))
  /\ UNCHANGED <<pipeVars, strategyVars, utilVars, mountVars>>

\* login: signInWithPassword settles; a returned error is stored as an
\* AuthError and that AuthError is thrown into login's own catch
SignInSettles ==
  \E i \in DOMAIN tasks, out \in SignInOutcomes :
    /\ tasks[i].kind = "login"
    /\ tasks[i].pc = "signIn"
    /\ LET t == [tasks[i] EXCEPT !.settled = [how |-> out.how, error |-> out.error]]
           authError == CreateAuthError("AUTH_ERROR", out.error.message, out.error, FALSE)
       IN  Commit(i,
             CASE out.how = "ok" -> LoginSucceeded(t, World, out.session)
               [] out.how = "returned" ->
                    LoginCatch(t, [World EXCEPT !.authState.loadingState = "IDLE",
                                                !.authState.error = authError],
                               authError)
               [] out.how = "thrown" -> LoginCatch(t, World, out.error))
    /\ UNCHANGED <<pipeVars, strategyVars, utilVars, mountVars>>

\* login: the sleep before the next sign-in ends
LoginTimerFires ==
  \E i \in DOMAIN tasks :
    /\ tasks[i].pc = "loginSleep"
    /\ Commit(i, LoginLoop([tasks[i] EXCEPT !.attempt = @ + 1], World))
    /\ UNCHANGED <<pipeVars, strategyVars, utilVars, mountVars>>

\* logout() up to its await
LogoutCall ==
  /\ isInitializedRef
  /\ Operations < MaxOperations
  /\ Spawn([t |-> [NewTask("logout", "none", Null) EXCEPT !.pc = "signOut", !.calls = 1],
            w |-> ClearRefreshTimeout(
                    [World EXCEPT !.authState.loadingState = "SIGNING_OUT",
                                  !.authState.error = Null])])
  /\ UNCHANGED <<pipeVars, strategyVars, utilVars, mountVars>>

\* logout when signOut threw: the catch logs the exception and throws it on
LogoutCatch(t, w, error) == [t |-> Done(t, Rejected(error)), w |-> w]

\* logout: signOut settles; a returned error is stored as an AuthError, which
\* is thrown and passes through the catch
SignOutSettles ==
  \E i \in DOMAIN tasks, out \in SignOutOutcomes :
    /\ tasks[i].kind = "logout"
    /\ tasks[i].pc = "signOut"
    /\ LET t == [tasks[i] EXCEPT !.settled = [how |-> out.how, error |-> out.error]]
           authError == CreateAuthError("AUTH_ERROR", out.error.message, out.error, FALSE)
       IN  Commit(i,
             CASE out.how = "ok" ->
                    [t |-> Done(t, Resolved([success |-> TRUE])),
                     w |-> [World EXCEPT
                              !.channel = Append(@, [event |-> "SIGNED_OUT", session |-> Null])]]
               [] out.how = "returned" ->
                    LogoutCatch(t, [World EXCEPT !.authState.loadingState = "IDLE",
                                                 !.authState.error = authError],
                                authError)
               [] out.how = "thrown" -> LogoutCatch(t, World, out.error))
    /\ UNCHANGED <<pipeVars, strategyVars, utilVars, mountVars>>

\* the listener gets SIGNED_IN with a session: handleAuthChange up to the
\* first await of fetchUserProfile
SignedInDelivered ==
  /\ subscription = "active"
  /\ channel # <<>>
  /\ Head(channel).event = "SIGNED_IN"
  /\ Spawn(FetchUserProfile(
             NewTask("handleAuthChange", "SIGNED_IN", Head(channel).session),
             [World EXCEPT !.channel = Tail(@),
                           !.authState.loadingState = "REFRESHING_PROFILE"]))
  /\ UNCHANGED <<pipeVars, strategyVars, utilVars, mountVars>>

\* slip: the state is reset and the renewal timer stays armed
SignedOutKeepingTimer(w) ==
  [w EXCEPT !.authState = [user |-> Null, loadingState |-> "IDLE", error |-> Null]]

\* the SIGNED_OUT case of handleAuthChange
SignedOut(w) ==
  [ClearRefreshTimeout(w) EXCEPT
     !.authState = [user |-> Null, loadingState |-> "IDLE", error |-> Null]]

\* the listener gets SIGNED_OUT: handleAuthChange runs to its end
SignedOutDelivered ==
  /\ subscription = "active"
  /\ channel # <<>>
  /\ Head(channel).event = "SIGNED_OUT"
  /\ SetWorld(SignedOut([World EXCEPT !.channel = Tail(@)]))
  /\ UNCHANGED <<tasks, pipeVars, strategyVars, utilVars, mountVars>>

\* what supabase.auth.refreshSession() answers
RefreshSessionOutcomes ==
  {[how |-> "ok", error |-> Undefined, session |-> s] : s \in Sessions}
    \cup [how : {"returned", "thrown"}, error : {FetchFailed}, session : {Null}]

\* slip: the guard of the mount effect is never taken
AlreadyInitializedNever(ref) == FALSE

\* if (isInitializedRef.current) return
AlreadyInitialized(ref) == ref

\* The mount effect runs. The first run makes the AbortController, starts
\* checkInitialSession and registers the listener, which the collaborator
\* answers with INITIAL_SESSION; a later run returns at once and has no
\* cleanup.
EffectRuns ==
  /\ ~cleanup
  /\ effectRuns < MaxEffectRuns
  /\ effectRuns' = effectRuns + 1
  /\ IF AlreadyInitialized(isInitializedRef)
       THEN UNCHANGED <<authState, sessionRefreshTimeoutRef, timers, timerSeq, tasks,
                        channel, isInitializedRef, abortControllerRef, subscription,
                        cleanup>>
       ELSE /\ isInitializedRef' = TRUE
            /\ abortControllerRef' = "live"
            /\ Spawn(SessionLoop(
                 NewTask("checkInitialSession", "mount", Null),
                 [World EXCEPT
                    !.channel = Append(@, [event |-> "INITIAL_SESSION", session |-> Null])]))
            /\ subscription' = "active"
            /\ cleanup' = TRUE
  /\ UNCHANGED <<pipeVars, strategyVars, utilVars>>

\* The cleanup of the mount effect runs (unmount): unsubscribe, abort,
\* clearTimeout
EffectCleanup ==
  /\ cleanup
  /\ cleanup' = FALSE
  /\ subscription' = "unsubscribed"
  /\ abortControllerRef' = IF abortControllerRef # "null" THEN "aborted" ELSE abortControllerRef
  /\ SetWorld(ClearRefreshTimeout(World))
  /\ UNCHANGED <<tasks, isInitializedRef, effectRuns, pipeVars, strategyVars, utilVars>>

\* the listener gets INITIAL_SESSION and passes it over
InitialSessionDelivered ==
  /\ subscription = "active"
  /\ channel # <<>>
  /\ Head(channel).event = "INITIAL_SESSION"
  /\ channel' = Tail(channel)
  /\ UNCHANGED <<authState, sessionRefreshTimeoutRef, timers, timerSeq, tasks, mountVars,
                 pipeVars, strategyVars, utilVars>>

\* the listener gets TOKEN_REFRESHED with a session: handleAuthChange up to
\* the first await of fetchUserProfile
TokenRefreshedDelivered ==
  /\ subscription = "active"
  /\ channel # <<>>
  /\ Head(channel).event = "TOKEN_REFRESHED"
  /\ Spawn(FetchUserProfile(
             NewTask("handleAuthChange", "TOKEN_REFRESHED", Head(channel).session),
             SetupSessionRefresh([World EXCEPT !.channel = Tail(@)], Head(channel).session)))
  /\ UNCHANGED <<pipeVars, strategyVars, utilVars, mountVars>>

\* the renewal timer fires: its callback up to await refreshSession()
RefreshTimerFires ==
  \E tm \in timers :
    /\ isInitializedRef
  /\ Operations < MaxOperations
    /\ Spawn([t |-> [NewTask("sessionRefresh", "none", Null) EXCEPT
                       !.pc = "refreshSession", !.calls = 1],
              w |-> [World EXCEPT !.timers = @ \ {tm},
                                  !.authState.loadingState = "REFRESHING_SESSION"]])
    /\ UNCHANGED <<pipeVars, strategyVars, utilVars, mountVars>>

\* slip: a failed refresh is stored as an error that cannot be retried
RefreshFailedFinal(message, error) == CreateAuthError("SESSION_ERROR", message, error, FALSE)

\* createAuthError(SESSION_ERROR, message, error, true) of the timer callback
RefreshFailed(message, error) == CreateAuthError("SESSION_ERROR", message, error, TRUE)

\* the timer callback after await refreshSession(); the collaborator
\* notifies TOKEN_REFRESHED with the new session
RefreshSessionSettles ==
  \E i \in DOMAIN tasks, out \in RefreshSessionOutcomes :
    /\ tasks[i].kind = "sessionRefresh"
    /\ tasks[i].pc = "refreshSession"
    /\ LET t == Done(tasks[i], Resolved(Undefined))
       IN  Commit(i,
             CASE out.how = "ok" ->
                    [t |-> t,
                     w |-> [World EXCEPT
                              !.authState.loadingState = "IDLE",
                              !.authState.error = Null,
                              !.channel = Append(@, [event |-> "TOKEN_REFRESHED",
                                                     session |-> out.session])]]
               [] out.how = "returned" ->
                    [t |-> t,
                     w |-> [World EXCEPT
                              !.authState.loadingState = "IDLE",
                              !.authState.error =
                                 RefreshFailed("session refresh failed", out.error)]]
               [] out.how = "thrown" ->
                    [t |-> t,
                     w |-> [World EXCEPT
                              !.authState.loadingState = "IDLE",
                              !.authState.error =
                                 RefreshFailed("error during session refresh", out.error)]])
    /\ UNCHANGED <<pipeVars, strategyVars, utilVars, mountVars>>

\* what supabase.auth.getUser() answers
GetUserOutcomes ==
  {[how |-> "ok", error |-> Undefined, user |-> u] : u \in {[id |-> "u1"], Null}}
    \cup [how : {"returned", "thrown"}, error : {FetchFailed}, user : {Null}]

\* refreshUser() up to await getUser(), called by the application or by
\* retryLastOperation (origin)
RefreshUser(origin, w) ==
  [t |-> [NewTask("refreshUser", origin, Null) EXCEPT !.pc = "getUser", !.calls = 1],
   w |-> [w EXCEPT !.authState.loadingState = "REFRESHING_PROFILE",
                   !.authState.error = Null]]

\* the application calls refreshUser()
RefreshUserCall ==
  /\ isInitializedRef
  /\ Operations < MaxOperations
  /\ Spawn(RefreshUser("none", World))
  /\ UNCHANGED <<pipeVars, strategyVars, utilVars, mountVars>>

\* the error refreshUser's catch stores
RefreshUserError(error) ==
  IF HookIsNetworkError(error)
    THEN CreateAuthError("NETWORK_ERROR", "check the network connection", error, TRUE)
    ELSE CreateAuthError("UNKNOWN_ERROR", "refreshing the user failed", error, FALSE)

\* refreshUser after await getUser(): a thrown failure goes to the catch, a
\* returned one and a missing user end the call with a SessionError, a user
\* starts fetchUserProfile
GetUserSettles ==
  \E i \in DOMAIN tasks, out \in GetUserOutcomes :
    /\ tasks[i].kind = "refreshUser"
    /\ tasks[i].pc = "getUser"
    /\ LET t == [tasks[i] EXCEPT !.settled = [how |-> out.how, error |-> out.error]]
       IN  Commit(i,
             CASE out.how = "thrown" ->
                    [t |-> Done(t, Resolved(Undefined)),
                     w |-> [World EXCEPT !.authState.loadingState = "IDLE",
                                         !.authState.error = RefreshUserError(out.error)]]
               [] out.how = "returned" ->
                    [t |-> Done(t, Resolved(Undefined)),
                     w |-> [World EXCEPT
                              !.authState =
                                 [user |-> Null, loadingState |-> "IDLE",
                                  error |-> CreateAuthError("SESSION_ERROR", out.error.message,
                                                            out.error, FALSE)]]]
               [] out.how = "ok" /\ out.user = Null ->
                    [t |-> Done(t, Resolved(Undefined)),
                     w |-> [World EXCEPT
                              !.authState =
                                 [user |-> Null, loadingState |-> "IDLE",
                                  error |-> CreateAuthError("SESSION_ERROR", "user not found",
                                                            Null, FALSE)]]]
               [] OTHER -> FetchUserProfile(t, World))
    /\ UNCHANGED <<pipeVars, strategyVars, utilVars, mountVars>>

\* slip: the retryable flag is not looked at
IsRetryableAlways(error) == error # Null

\* authState.error?.retryable
IsRetryable(error) == error # Null /\ error.retryable

\* retryLastOperation() up to its first await, or to its end when it has
\* nothing to do
RetryLastOperation(w) ==
  CASE ~IsRetryable(w.authState.error) ->
         [t |-> Done(NewTask("retryLastOperation", "none", Null), Resolved(Undefined)), w |-> w]
    [] w.authState.error.type \in {"NETWORK_ERROR", "SESSION_ERROR"} ->
         SessionLoop(NewTask("checkInitialSession", "retryLastOperation", Null), w)
    [] w.authState.error.type = "PROFILE_ERROR" -> RefreshUser("retryLastOperation", w)
    [] OTHER ->
         [t |-> Done(NewTask("retryLastOperation", "none", Null), Resolved(Undefined)), w |-> w]

\* the application calls retryLastOperation()
RetryLastOperationCall ==
  /\ isInitializedRef
  /\ Operations < MaxOperations
  /\ Spawn(RetryLastOperation(World))
  /\ UNCHANGED <<pipeVars, strategyVars, utilVars, mountVars>>

AuthNext ==
  \/ EffectRuns
  \/ EffectCleanup
  \/ InitialSessionDelivered
  \/ TokenRefreshedDelivered
  \/ RefreshTimerFires
  \/ RefreshSessionSettles
  \/ RetryLastOperationCall
  \/ RefreshUserCall
  \/ GetUserSettles
  \/ GetSessionSettles
  \/ SessionTimerFires
  \/ ProfileQuerySettles
  \/ FetchTimerFires
  \/ LoginCall
  \/ SignInSettles
  \/ LoginTimerFires
  \/ LogoutCall
  \/ SignOutSettles
  \/ SignedInDelivered
  \/ SignedOutDelivered

SpecAuth == AuthInit /\ [][AuthNext]_vars

\* What the runtime guarantees the controller: React runs the mount effect
\* after the first render, every awaited collaborator call settles, every
\* sleep of a retry loop ends, and the collaborator calls the registered
\* listener with every notification. When the application calls the hook's
\* functions, when the component unmounts and when a renewal timer is due
\* are left open.
AuthFairness ==
  /\ WF_vars(EffectRuns /\ effectRuns = 0)
  /\ WF_vars(InitialSessionDelivered)
  /\ WF_vars(SignedInDelivered)
  /\ WF_vars(SignedOutDelivered)
  /\ WF_vars(TokenRefreshedDelivered)
  /\ WF_vars(GetSessionSettles)
  /\ WF_vars(SessionTimerFires)
  /\ WF_vars(ProfileQuerySettles)
  /\ WF_vars(FetchTimerFires)
  /\ WF_vars(SignInSettles)
  /\ WF_vars(LoginTimerFires)
  /\ WF_vars(SignOutSettles)
  /\ WF_vars(RefreshSessionSettles)
  /\ WF_vars(GetUserSettles)

SpecAuthLive == SpecAuth /\ AuthFairness

(* ------------------------------ memoize ------------------------------ *)
(* memoize(fn) of src/lib/utils/pipe.ts, called any number of times.  A   *)
(* JavaScript string is the sequence of its characters, so that two keys  *)
(* are equal exactly when createMemoKey builds the same text.             *)

\* longest array handed to a memoized function
MaxElems == 3
\* how many results the cache of a run may come to hold
MaxCached == 2

JsNull == [type |-> "null", n |-> 0, s |-> <<>>, elems |-> <<>>]
JsUndefined == [type |-> "undefined", n |-> 0, s |-> <<>>, elems |-> <<>>]
JsNumber(n) == [type |-> "number", n |-> n, s |-> <<>>, elems |-> <<>>]
JsString(s) == [type |-> "string", n |-> 0, s |-> s, elems |-> <<>>]
JsArray(elems) == [type |-> "array", n |-> 0, s |-> <<>>, elems |-> elems]

\* String(n) for a number below ten
NumberToString(n) ==
  <<(<<"0", "1", "2", "3", "4", "5", "6", "7", "8", "9">>)[n + 1]>>

\* String(arg) for a primitive that is neither null nor undefined
StringOf(arg) == IF arg.type = "number" THEN NumberToString(arg.n) ELSE arg.s

\* the text an array contributes: its length and its first and last element
ArrayKey(elems) ==
  LET len == Len(elems)
  IN  IF len = 0
        THEN <<"[", "]">>
        ELSE IF len = 1
          THEN <<"[">> \o StringOf(elems[1]) \o <<"]">>
          ELSE <<"[">> \o NumberToString(len) \o <<":">> \o StringOf(elems[1])
                 \o <<".", ".", ".">> \o StringOf(elems[len]) \o <<"]">>

\* the callback of args.map in createMemoKey
ArgKey(arg) ==
  CASE arg.type = "null" -> <<"n", "u", "l", "l">>
    [] arg.type = "undefined" -> <<"u", "n", "d", "e", "f", "i", "n", "e", "d">>
    [] arg.type = "array" -> ArrayKey(arg.elems)
    [] OTHER -> StringOf(arg)

\* parts.join('|')
RECURSIVE Join(_)
Join(parts) ==
  IF Len(parts) = 0
    THEN <<>>
    ELSE IF Len(parts) = 1
      THEN parts[1]
      ELSE parts[1] \o <<"|">> \o Join(Tail(parts))

\* createMemoKey(args): the shortcuts for no argument and for one argument
\* that is no object, else the joined texts of the arguments
CreateMemoKey(args) ==
  IF Len(args) = 0
    THEN <<"e", "m", "p", "t", "y">>
    ELSE IF Len(args) = 1 /\ args[1].type # "array"
      THEN ArgKey(args[1])
      ELSE Join([k \in 1..Len(args) |-> ArgKey(args[k])])

\* The primitives, the arrays of numbers and the argument lists a memoized
\* function is called with (objects other than arrays are left out).
MemoArgLists ==
  LET numbers == {JsNumber(n) : n \in 0..1}
      strings == {JsString(<<"1">>), JsString(<<"n", "u", "l", "l">>)}
      primitives == numbers \cup strings \cup {JsNull, JsUndefined}
      arrays == {JsArray(e) : e \in UNION {[1..n -> numbers] : n \in 0..MaxElems}}
  IN  {<<>>} \cup {<<v>> : v \in primitives \cup arrays}
        \cup {<<a, b>> : a \in numbers, b \in numbers}

\* The pure functions that are memoized: (x) => x and (...args) => args.length
MemoFns == {"first", "count"}

ApplyMemoFn(f, args) ==
  IF f = "first"
    THEN IF Len(args) = 0 THEN JsUndefined ELSE args[1]
    ELSE JsNumber(Len(args))

MemoInit ==
  /\ memoFn \in MemoFns
  /\ cache = <<>>
  /\ memoCall = Undefined
  /\ NoPipeline
  /\ NoStrategy
  /\ NoController
  /\ NoPersist

\* cache.has(key)
CacheHas(key) == \E k \in DOMAIN cache : cache[k].key = key

\* cache.get(key)
CacheGet(key) == cache[CHOOSE k \in DOMAIN cache : cache[k].key = key].result

\* memoized(...args): a key that is cached returns the cached result, any
\* other calls fn and caches what it returns
MemoizedCall ==
  /\ \E args \in MemoArgLists :
       LET key == CreateMemoKey(args)
       IN  IF CacheHas(key)
             THEN /\ memoCall' = [args |-> args, returned |-> CacheGet(key)]
                  /\ cache' = cache
             ELSE /\ Len(cache) < MaxCached
                  /\ memoCall' = [args |-> args,
                                  returned |-> ApplyMemoFn(memoFn, args)]
                  /\ cache' = Append(cache, [key |-> key,
                                             result |-> ApplyMemoFn(memoFn, args)])
  /\ UNCHANGED <<memoFn, pipeVars, strategyVars, authVars, persistVars>>

MemoNext == MemoizedCall

SpecMemo == MemoInit /\ [][MemoNext]_vars

(* ----------------------------- usePersist ---------------------------- *)
(* The hook of src/hooks/use-persist.ts in a browser, with the default    *)
(* serializer and syncAcrossTabs.  debounce is imported from              *)
(* lib/utils/async: a call (re)starts the interval and replaces the       *)
(* pending arguments, the wrapped function runs once with the last        *)
(* arguments when the interval has passed, cancel drops the pending call. *)

\* the values the hook stores are the numbers 0..MaxPersist
MaxPersist == 1
\* how many operations the application and other tabs make
MaxUpdates == 3

PersistValues == 0..MaxPersist

\* JSON.stringify(v)
Stringify(v) == NumberToString(v)

\* JSON.parse(text)
Parse(text) == CHOOSE v \in PersistValues : Stringify(v) = text

\* what localStorage may hold under the key: an item written by this hook
\* or by another tab, or none (getItem returns null)
Storages == {{Stringify(v)} : v \in PersistValues} \cup {{}}

\* the value a storage with or without an item stands for: the parsed item,
\* or initialValue (savedValue != null ? parse(savedValue) : initialValue,
\* and the same choice on e.newValue)
ReadItem(storage, initial) ==
  IF storage # {} THEN Parse(CHOOSE text \in storage : TRUE) ELSE initial

\* The state after the first render, whose write effect is due.
PersistInit ==
  /\ initialValue \in PersistValues
  /\ localStorage \in Storages
  /\ persistValue = ReadItem(localStorage, initialValue)
  /\ isInternalUpdate = FALSE
  /\ debouncedWrite = {}
  /\ writeEffectDue = TRUE
  /\ lastChange = "mount"
  /\ updates = 0
  /\ NoPipeline
  /\ NoStrategy
  /\ NoController
  /\ NoMemo

\* setValue(v): a render with another value makes the write effect due, as
\* value is one of its dependencies; setting the value the hook holds
\* renders nothing. Updates made before a due effect has run are rendered
\* together and the effect runs once for them.
SetValue(v) ==
  /\ persistValue' = v
  /\ writeEffectDue' = (writeEffectDue \/ v # persistValue)

\* the write effect: an update marked internal is passed over and the mark
\* is taken off, any other value goes to the debounced write
WriteEffect ==
  /\ writeEffectDue
  /\ writeEffectDue' = FALSE
  /\ IF isInternalUpdate
       THEN isInternalUpdate' = FALSE /\ debouncedWrite' = debouncedWrite
       ELSE isInternalUpdate' = isInternalUpdate /\ debouncedWrite' = {persistValue}
  /\ UNCHANGED <<initialValue, persistValue, localStorage, lastChange, updates,
                 memoVars, pipeVars, strategyVars, authVars>>

\* the debounce interval has passed since the last call of the debounced
\* write, which runs with the arguments of that call:
\* localStorage.setItem(k, stringify(v))
DebounceFires ==
  /\ \E v \in debouncedWrite : localStorage' = {Stringify(v)}
  /\ debouncedWrite' = {}
  /\ UNCHANGED <<initialValue, persistValue, isInternalUpdate, writeEffectDue, lastChange,
                 updates, memoVars, pipeVars, strategyVars, authVars>>

\* the application sets another value with the hook's setter
SetValueCall ==
  /\ updates < MaxUpdates
  /\ \E v \in PersistValues \ {persistValue} : SetValue(v)
  /\ lastChange' = "local"
  /\ updates' = updates + 1
  /\ UNCHANGED <<initialValue, localStorage, isInternalUpdate, debouncedWrite,
                 memoVars, pipeVars, strategyVars, authVars>>

\* another tab changes the item (or removes it) and the browser
\* sends this tab the storage event: handleStorageChange
StorageEvent ==
  /\ updates < MaxUpdates
  /\ \E storage \in Storages \ {localStorage} :
       /\ localStorage' = storage
       /\ SetValue(ReadItem(storage, initialValue))
  /\ isInternalUpdate' = TRUE
  /\ lastChange' = "storage"
  /\ updates' = updates + 1
  /\ UNCHANGED <<initialValue, debouncedWrite, memoVars, pipeVars, strategyVars, authVars>>

\* removeValue()
RemoveValue ==
  /\ updates < MaxUpdates
  /\ localStorage' = {}
  /\ SetValue(initialValue)
  /\ lastChange' = "remove"
  /\ updates' = updates + 1
  /\ UNCHANGED <<initialValue, isInternalUpdate, debouncedWrite,
                 memoVars, pipeVars, strategyVars, authVars>>

\* setValueImmediate(v): the pending write is cancelled and the updater
\* writes the item itself
SetValueImmediate ==
  /\ updates < MaxUpdates
  /\ \E v \in PersistValues :
       /\ localStorage' = {Stringify(v)}
       /\ SetValue(v)
  /\ debouncedWrite' = {}
  /\ lastChange' = "immediate"
  /\ updates' = updates + 1
  /\ UNCHANGED <<initialValue, isInternalUpdate, memoVars, pipeVars, strategyVars, authVars>>

PersistNext ==
  \/ WriteEffect
  \/ DebounceFires
  \/ SetValueCall
  \/ StorageEvent
  \/ RemoveValue
  \/ SetValueImmediate

SpecPersist == PersistInit /\ [][PersistNext]_vars

\* React runs a due effect, and the debounce interval passes
PersistFairness == WF_vars(WriteEffect) /\ WF_vars(DebounceFires)

SpecPersistLive == SpecPersist /\ PersistFairness

(* ------------------------------ claims ------------------------------- *)

Async == mode \in {"pipeAsync", "pipeAsyncWithOptions"}

\* fn(...f2(f1(x))...) over the first n steps, folded by hand
RECURSIVE FoldLeft(_, _, _)
FoldLeft(steps, n, x) ==
  IF n = 0 THEN x ELSE ApplyFn(steps[n], FoldLeft(steps, n - 1, x))

\* no step after position k (1-based) was invoked
NoneAfter(k) == \A j \in 1..Len(fns) : j > k => calls[j] = 0

\* C1: for a non-empty step list, pipe(f1, ..., fn)(x) returns what folding
\* the steps left to right over x returns: a run in which no step throws
\* returns, its value is fn(...f2(f1(x))...), and every step was invoked once,
\* step k with the result of the k-1 steps before it.
C1_PipeEqualsFold ==
  (mode = "pipe" /\ Len(fns) > 0 /\ pc = "done") =>
    /\ ~settled.threw => outcome.status = "resolved"
    /\ outcome.status = "resolved" =>
         /\ outcome.value = FoldLeft(fns, Len(fns), value)
         /\ \A k \in 1..Len(fns) :
              calls[k] = 1 /\ argsSeen[k] = {FoldLeft(fns, k - 1, value)}

\* pipe(add, double)(1) returned 4, which double-then-add would not
C1_Witness ==
  /\ mode = "pipe" /\ pc = "done"
  /\ fns = <<"add", "double">> /\ value = 1
  /\ outcome = Resolved(4)
  /\ calls = <<1, 1>>

C3_Original ==
  (Async /\ ~UsesRetry(options.retryAttempts) /\ options.timeoutMs # 0
     /\ pc \in {"inflight", "done"} /\ settled.dur > options.timeoutMs) =>
    /\ pc = "done"
    /\ outcome.status = "rejected"
    /\ outcome.error.cls = "PipeTimeoutError"
    /\ outcome.error.step = stepIndex + 1
    /\ elapsed = options.timeoutMs
    /\ NoneAfter(stepIndex + 1)

NonDecreasing(seq) == \A a, b \in 1..Len(seq) : a < b => seq[a] <= seq[b]

\* C5: with retryAttempts = n > 1, a step that fails k < n times and then
\* succeeds was invoked k+1 times, every time with the same argument (the
\* result of the steps before it), the steps before it were not invoked again,
\* the waits between its attempts never decrease, and a pipeline that
\* resolves resolves to the fold of the steps over the input.
C5_RetryThenSuccess ==
  (Async /\ UsesRetry(options.retryAttempts)) =>
    /\ \A k \in 1..Len(fns) :
         \* step k has succeeded: the loop is past it
         (k <= stepIndex) =>
           /\ failures[k] < options.retryAttempts
           /\ calls[k] = failures[k] + 1
           /\ argsSeen[k] = {FoldLeft(fns, k - 1, value)}
    /\ \A k \in 1..Len(fns) : Cardinality(argsSeen[k]) <= 1
    /\ NonDecreasing(waits)
    /\ (pc \in {"inflight", "backoff"}) =>
         /\ Len(waits) = failures[stepIndex + 1]
         /\ calls[stepIndex + 1] = retryIndex + 1
    /\ (pc = "done" /\ outcome.status = "resolved") =>
         outcome.value = FoldLeft(fns, Len(fns), value)
    /\ (pc = "done" /\ ~settled.threw /\ ~aborted) => outcome.status = "resolved"

\* n = 3, k = 2: the last step of two failed twice and then succeeded, after
\* waits of retryDelayMs and twice retryDelayMs
C5_Witness ==
  /\ mode = "pipeAsyncWithOptions" /\ options.retryAttempts = 3
  /\ options.retryDelayMs = MaxDelay
  /\ Len(fns) = 2 /\ pc = "done"
  /\ outcome = Resolved(FoldLeft(fns, 2, value))
  /\ calls = <<1, 3>> /\ failures = <<0, 2>>
  /\ waits = <<MaxDelay, 2 * MaxDelay>>

\* C6: with retryAttempts = n > 1, a step that fails on every attempt makes
\* the pipeline reject with a RetryExhaustedError whose attempts is n and
\* whose lastError is what the last attempt threw (as an Error: a thrown value
\* that is no Error becomes new Error(String(value))); the step was invoked n
\* times and no later step was invoked.
C6_RetryExhausted ==
  (Async /\ UsesRetry(options.retryAttempts) /\ pc = "done" /\ settled.threw) =>
    /\ outcome.status = "rejected"
    /\ outcome.error.cls = "PipeRetryError"
    /\ outcome.error.attempts = options.retryAttempts
    /\ outcome.error.lastError.message = settled.error.message
    /\ IsErrorInstance(settled.error) => outcome.error.lastError = settled.error
    /\ calls[stepIndex + 1] = options.retryAttempts
    /\ failures[stepIndex + 1] = options.retryAttempts
    /\ NoneAfter(stepIndex + 1)

\* n = 3: the first step of two threw "boom" three times
C6_Witness ==
  /\ options.retryAttempts = 3 /\ Len(fns) = 2 /\ pc = "done"
  /\ outcome.status = "rejected" /\ outcome.error.cls = "PipeRetryError"
  /\ outcome.error.attempts = 3
  /\ outcome.error.lastError.message = "boom"
  /\ calls = <<3, 0>>

C8_Original ==
  (Async /\ pc = "done" /\ settled.threw
     /\ settled.error.cls \in {"PipeTimeoutError", "PipeRetryError", "PipeAbortError"}) =>
    outcome = Rejected(settled.error)

C10_Original ==
  (mode \in {"pipe", "pipeAsync"} /\ pc = "done" /\ settled.threw
     /\ outcome.status = "rejected"
     /\ outcome.error.cls = "PipeExecutionError") =>
    outcome.error.originalError = settled.error

\* C11: a pipeline built from no steps is the identity: pipe()(x) returns x,
\* pipeAsync()(x) and pipeAsyncWithOptions(options)(x) resolve to x, for every
\* x and every options record; the call ends at once, whatever the timeout,
\* the retry count and the abort signal are.
C11_EmptyIsIdentity ==
  (mode \in {"pipe", "pipeAsync", "pipeAsyncWithOptions"} /\ Len(fns) = 0) =>
    /\ pc \in {"start", "done"}
    /\ pc = "done" => outcome = Resolved(value)

\* pipeAsyncWithOptions({timeoutMs, retryAttempts: 3, abortSignal})(x) with
\* the signal already set resolved to x
C11_Witness ==
  /\ mode = "pipeAsyncWithOptions" /\ Len(fns) = 0
  /\ options.hasSignal /\ aborted
  /\ options.timeoutMs = MaxTimeout /\ options.retryAttempts = 3
  /\ value = MaxInput
  /\ pc = "done" /\ outcome = Resolved(MaxInput)

\* the step list read from its end
Reverse(steps) == [k \in 1..Len(steps) |-> steps[Len(steps) + 1 - k]]

\* C12: compose(f, g)(x) equals f(g(x)), and compose(f1, ..., fn)(x) equals
\* pipe(fn, ..., f1)(x), the fold of the reversed step list over x: a run in
\* which no step throws returns that value, and every step was applied once,
\* step k to the result of the steps to its right.
C12_ComposeIsReversedPipe ==
  (mode = "compose" /\ Len(fns) > 0 /\ pc = "done") =>
    /\ ~settled.threw => outcome.status = "resolved"
    /\ outcome.status = "resolved" =>
         /\ outcome.value = FoldLeft(Reverse(fns), Len(fns), value)
         /\ Len(fns) = 2 => outcome.value = ApplyFn(fns[1], ApplyFn(fns[2], value))
         /\ \A k \in 1..Len(fns) :
              /\ calls[k] = 1
              /\ argsSeen[k] = {FoldLeft(Reverse(fns), Len(fns) - k, value)}

\* compose(add, double)(1) returned add(double(1)) = 3, where pipe returns 4
C12_Witness ==
  /\ mode = "compose" /\ pc = "done"
  /\ fns = <<"add", "double">> /\ value = 1
  /\ outcome = Resolved(3)
  /\ calls = <<1, 1>>

\* how many steps have been applied: were called and returned
StepsApplied == Cardinality({k \in 1..Len(fns) : calls[k] = 1 /\ failures[k] = 0})

FirstOffender(i) ==
  /\ i \in 0..(Len(fns) - 1)
  /\ fns[i + 1] \in NonCallables
  /\ \A j \in 1..i : fns[j] \notin NonCallables

C15_BaseShouldRetry ==
  (strategy # Undefined /\ strategy.cls = "ExponentialBackoffRetryStrategy"
     /\ asked # Undefined) =>
    (asked.decision <=> asked.attempt <= strategy.maxRetries)

\* m = 3: attempt 3 is permitted after a credential failure
C15_Witness ==
  /\ strategy # Undefined /\ asked # Undefined
  /\ strategy.cls = "ExponentialBackoffRetryStrategy" /\ strategy.maxRetries = 3
  /\ asked.attempt = 3 /\ asked.decision
  /\ asked.error # Undefined /\ HasCode(asked.error) /\ asked.error.code = "INVALID_PASSWORD"

\* the error carries one of the credential/authorization failure codes
CarriesCredentialCode(error) ==
  /\ "code" \in DOMAIN error
  /\ error.code \in {"INVALID_CREDENTIALS", "USER_NOT_FOUND", "EMAIL_NOT_CONFIRMED",
                     "INVALID_PASSWORD"}

\* the error is an Error whose message names fetch, network or timeout
TransientSignature(error) ==
  /\ "cls" \in DOMAIN error /\ error.cls = "Error"
  /\ error.message \in {"Failed to fetch", "request timeout"}

\* C16: the auth-aware strategy answers shouldRetry(attempt, error) with
\* false, whatever the attempt, for an error that carries a credential
\* failure code, with false for an error that does not match the network
\* signature, and else (a network failure without such a code, or no error)
\* with attempt <= maxRetries; it never permits what the base strategy
\* refuses.
C16_AuthShouldRetry ==
  (strategy # Undefined /\ strategy.cls = "AuthRetryStrategy" /\ asked # Undefined) =>
    /\ (asked.error # Undefined /\ CarriesCredentialCode(asked.error)) => ~asked.decision
    /\ (asked.error # Undefined /\ ~TransientSignature(asked.error)) => ~asked.decision
    /\ (asked.error = Undefined
          \/ (TransientSignature(asked.error) /\ ~CarriesCredentialCode(asked.error))) =>
         (asked.decision <=> asked.attempt <= strategy.maxRetries)
    /\ asked.decision => asked.attempt <= strategy.maxRetries

\* attempt 1 of 3 is refused for a failure that carries INVALID_CREDENTIALS
\* though its message reads like a network failure
C16_Witness ==
  /\ strategy # Undefined /\ asked # Undefined
  /\ strategy.cls = "AuthRetryStrategy" /\ strategy.maxRetries = 3
  /\ asked.attempt = 1 /\ ~asked.decision
  /\ asked.error # Undefined /\ CarriesCredentialCode(asked.error)
  /\ TransientSignature(asked.error)

(* the auth controller *)

\* the collaborator's failure behind an error: AuthErrors carry what they
\* wrap as originalError
RECURSIVE UnderlyingCause(_)
UnderlyingCause(error) ==
  IF "originalError" \in DOMAIN error THEN UnderlyingCause(error.originalError) ELSE error

\* task i is a login that takes the step in which its sign-in settles
SignInSettlesFor(i) ==
  /\ tasks[i].kind = "login"
  /\ tasks[i].pc = "signIn"
  /\ tasks'[i] # tasks[i]

\* C17: a login whose first sign-in is answered with a credential failure
\* has called sign-in once and never sleeps for a second call; it resolves
\* only when the collaborator signed in, so it rejects, and what it rejects
\* with is the error it leaves in state next to loading = Idle: an AuthError
\* with retryable = false.
C17_CredentialFailureOnce ==
  [][\A i \in DOMAIN tasks :
       SignInSettlesFor(i) =>
         /\ tasks[i].attempt = 1 => tasks[i].calls = 1
         /\ tasks'[i].pc \in {"loginSleep", "done"}
         /\ tasks'[i].pc = "loginSleep" =>
              ~CarriesCredentialCode(UnderlyingCause(tasks'[i].settled.error))
         /\ tasks'[i].result.status = "resolved" => Len(channel') = Len(channel) + 1
         /\ (/\ tasks'[i].result.status = "rejected"
             /\ CarriesCredentialCode(UnderlyingCause(tasks'[i].result.error)))
              => /\ authState'.loadingState = "IDLE"
                 /\ authState'.error = tasks'[i].result.error
                 /\ authState'.error.type = "AUTH_ERROR"
                 /\ ~authState'.error.retryable]_vars

\* a login was rejected for an invalid password and its error is in state
C17_Witness ==
  \E i \in DOMAIN tasks :
    /\ tasks[i].kind = "login"
    /\ tasks[i].result.status = "rejected"
    /\ UnderlyingCause(tasks[i].result.error) = InvalidPassword
    /\ authState.error = tasks[i].result.error
    /\ authState.loadingState = "IDLE"

\* C18 as stated: a login that gives up on a failure with the network
\* signature, returned or thrown, has called sign-in as often as the session
\* strategy allows and reports NetworkError with retryable = true.
C18_Original ==
  [][\A i \in DOMAIN tasks :
       (/\ SignInSettlesFor(i)
        /\ tasks'[i].result.status = "rejected"
        /\ TransientSignature(UnderlyingCause(tasks'[i].result.error)))
         => /\ tasks[i].calls = SessionRetryStrategy.maxRetries
            /\ authState'.error.type = "NETWORK_ERROR"
            /\ authState'.error.retryable]_vars

\* C19: a call of login sets loading = SigningIn and error = none and leaves
\* user alone; no step of a login writes user; the step in which a login
\* returns success writes nothing to the state and has the collaborator
\* notify SignedIn; the handler of a SignedIn notification ends with loading
\* = Idle.
C19_LoginLeavesCommitToHandler ==
  [][/\ (/\ Len(tasks') = Len(tasks) + 1
         /\ tasks'[Len(tasks')].kind = "login")
          => /\ authState'.loadingState = "SIGNING_IN"
             /\ authState'.error = Null
             /\ authState'.user = authState.user
     /\ \A i \in DOMAIN tasks :
          /\ (tasks[i].kind = "login" /\ tasks'[i] # tasks[i])
               => authState'.user = authState.user
          /\ (SignInSettlesFor(i) /\ tasks'[i].result.status = "resolved")
               => /\ authState' = authState
                  /\ Len(channel') = Len(channel) + 1
                  /\ channel'[Len(channel')].event = "SIGNED_IN"
          /\ (/\ tasks[i].kind = "handleAuthChange"
              /\ tasks[i].event = "SIGNED_IN"
              /\ tasks[i].pc # "done"
              /\ tasks'[i].pc = "done")
               => authState'.loadingState = "IDLE"]_vars

\* a login returned success and the handler of its notification committed
\* the user
C19_Witness ==
  /\ \E i \in DOMAIN tasks :
       /\ tasks[i].kind = "login"
       /\ tasks[i].result = Resolved([success |-> TRUE])
  /\ \E i \in DOMAIN tasks :
       /\ tasks[i].kind = "handleAuthChange"
       /\ tasks[i].pc = "done"
  /\ authState = [user |-> Profile, loadingState |-> "IDLE", error |-> Null]

\* C20 as stated: a logout that rejects, whether sign-out returned a failure
\* or threw, leaves loading = Idle and an AuthError in state.
C20_Original ==
  [][\A i \in DOMAIN tasks :
       (/\ tasks[i].kind = "logout"
        /\ tasks[i].pc = "signOut"
        /\ tasks'[i].result.status = "rejected")
         => /\ authState'.loadingState = "IDLE"
            /\ authState'.error # Null
            /\ authState'.error.type = "AUTH_ERROR"]_vars

\* task i is checkInitialSession or the SIGNED_IN case of handleAuthChange
ForSession(i) ==
  \/ tasks[i].kind = "checkInitialSession"
  \/ tasks[i].kind = "handleAuthChange" /\ tasks[i].event = "SIGNED_IN"

\* task i takes the step in which its fetchUserProfile returns
FetchReturnsFor(i) ==
  /\ tasks[i].pc \in {"query", "fetchSleep"}
  /\ tasks'[i].pc = "done"

\* the step starts a call whose task is the last of the list
Starts(kind, event) ==
  /\ Len(tasks') = Len(tasks) + 1
  /\ tasks'[Len(tasks')].kind = kind
  /\ tasks'[Len(tasks')].event = event

C22_BootstrapFailureClassified ==
  [][\A i \in DOMAIN tasks :
       (tasks[i].kind = "checkInitialSession" /\ tasks[i].pc = "getSession") =>
         /\ tasks'[i].pc = "sessionSleep"
              => /\ TransientSignature(tasks'[i].settled.error)
                 /\ tasks[i].attempt + 1 <= SessionRetryStrategy.maxRetries
         /\ (tasks'[i].pc = "done" /\ authState'.error # Null)
              => /\ authState'.user = Null
                 /\ authState'.loadingState = "IDLE"
                 /\ authState'.error.originalError \in {FetchFailed, ServerFailure}
                 /\ IF TransientSignature(authState'.error.originalError)
                      THEN /\ authState'.error.type = "NETWORK_ERROR"
                           /\ authState'.error.retryable
                           /\ tasks[i].attempt = SessionRetryStrategy.maxRetries
                      ELSE /\ authState'.error.type = "SESSION_ERROR"
                           /\ ~authState'.error.retryable]_vars

\* checkInitialSession ended on a session query that failed without the
\* network signature
C22_Witness ==
  /\ \A i \in DOMAIN tasks : tasks[i].kind = "checkInitialSession" /\ tasks[i].pc = "done"
  /\ tasks # <<>>
  /\ authState.user = Null
  /\ authState.loadingState = "IDLE"
  /\ authState.error # Null
  /\ authState.error.type = "SESSION_ERROR"
  /\ ~authState.error.retryable
  /\ authState.error.originalError = ServerFailure

\* the calls of checkInitialSession that the mount effect has made
MountBootstraps ==
  {i \in DOMAIN tasks : tasks[i].kind = "checkInitialSession" /\ tasks[i].event = "mount"}

\* C23: however often the mount effect runs, it starts checkInitialSession
\* at most once; the delivery of INITIAL_SESSION changes neither the state
\* nor the timers and starts no call.
C23_BootstrapOnce ==
  [][/\ Cardinality({i \in DOMAIN tasks' :
                       /\ tasks'[i].kind = "checkInitialSession"
                       /\ tasks'[i].event = "mount"}) <= 1
     /\ (/\ channel # <<>>
         /\ Head(channel).event = "INITIAL_SESSION"
         /\ channel' = Tail(channel))
          => /\ authState' = authState
             /\ tasks' = tasks
             /\ timers' = timers
             /\ sessionRefreshTimeoutRef' = sessionRefreshTimeoutRef]_vars

\* the mount effect has run twice, after a cleanup, and INITIAL_SESSION was
\* delivered: one bootstrap was started
C23_Witness ==
  /\ effectRuns = MaxEffectRuns
  /\ Cardinality(MountBootstraps) = 1
  /\ channel = <<>>
  /\ Len(tasks) = 1

\* C24 as stated: when the fetch of the TOKEN_REFRESHED case returns, either
\* the user is updated (with loading = Idle and error = none) or the state is
\* what it was: the user untouched and no error written.
C24_Original ==
  [][\A i \in DOMAIN tasks :
       (/\ tasks[i].kind = "handleAuthChange"
        /\ tasks[i].event = "TOKEN_REFRESHED"
        /\ FetchReturnsFor(i))
         => \/ authState' = [user |-> Profile, loadingState |-> "IDLE", error |-> Null]
            \/ authState' = authState]_vars

\* C25: the delivery of SIGNED_OUT leaves no renewal timer armed and the
\* state user = absent, loading = Idle, error = none.
C25_SignedOutResets ==
  [][(/\ channel # <<>>
      /\ Head(channel).event = "SIGNED_OUT"
      /\ channel' = Tail(channel))
       => /\ timers' = {}
          /\ authState' = [user |-> Null, loadingState |-> "IDLE", error |-> Null]]_vars

\* SIGNED_OUT was delivered after a logout, when a user was signed in and a
\* timer had been armed
C25_Witness ==
  /\ \E i \in DOMAIN tasks :
       /\ tasks[i].kind = "logout"
       /\ tasks[i].result.status = "resolved"
  /\ channel = <<>>
  /\ sessionRefreshTimeoutRef # NoTimer
  /\ timers = {}
  /\ authState = [user |-> Null, loadingState |-> "IDLE", error |-> Null]

\* the timers after setupSessionRefresh(session): one timer, newly made, with
\* the delay expiry less lead time when that is positive, none otherwise
ArmedFor(session) ==
  IF session.remaining - RefreshLeadMs > 0
    THEN /\ timers' = {[id |-> sessionRefreshTimeoutRef',
                        delay |-> session.remaining - RefreshLeadMs]}
         /\ sessionRefreshTimeoutRef' \notin {tm.id : tm \in timers}
         /\ sessionRefreshTimeoutRef' # sessionRefreshTimeoutRef
    ELSE /\ timers' = {}
         /\ sessionRefreshTimeoutRef' = sessionRefreshTimeoutRef

\* C26: wherever setupSessionRefresh is called (a profile committed by
\* checkInitialSession or by the SIGNED_IN case, the delivery of
\* TOKEN_REFRESHED), the timers afterwards are those of ArmedFor; never is
\* more than one timer armed.
C26_TimerArmedAtExpiryLessLead ==
  [][/\ Cardinality(timers') <= 1
     /\ \A i \in DOMAIN tasks :
          (ForSession(i) /\ FetchReturnsFor(i) /\ authState'.user # Null)
            => ArmedFor(tasks[i].session)
     /\ Starts("handleAuthChange", "TOKEN_REFRESHED")
          => ArmedFor(tasks'[Len(tasks')].session)]_vars

\* a timer is armed five minutes ahead for a session that expires in ten
C26_Witness ==
  \E tm \in timers, s \in Sessions :
    /\ s.remaining = 2 * RefreshLeadMs
    /\ tm.delay = RefreshLeadMs
    /\ tm.id = sessionRefreshTimeoutRef

\* C27: when the renewal timer fires, loading becomes RefreshingSession and
\* one refreshSession call is made, user and error staying as they are; when
\* the call settles, loading becomes Idle and user stays as it is, error is
\* none if the collaborator refreshed (it notifies TOKEN_REFRESHED), and a
\* SessionError with retryable = true that wraps the failure otherwise.
C27_TimerRefreshesSession ==
  [][/\ Starts("sessionRefresh", "none")
          => /\ authState' = [authState EXCEPT !.loadingState = "REFRESHING_SESSION"]
             /\ tasks'[Len(tasks')].calls = 1
             /\ Cardinality(timers') = Cardinality(timers) - 1
     /\ \A i \in DOMAIN tasks :
          (tasks[i].kind = "sessionRefresh" /\ tasks'[i] # tasks[i])
            => /\ tasks[i].calls = 1
               /\ tasks'[i].pc = "done"
               /\ authState'.user = authState.user
               /\ authState'.loadingState = "IDLE"
               /\ IF Len(channel') > Len(channel)
                    THEN /\ authState'.error = Null
                         /\ channel'[Len(channel')].event = "TOKEN_REFRESHED"
                    ELSE /\ authState'.error # Null
                         /\ authState'.error.type = "SESSION_ERROR"
                         /\ authState'.error.retryable
                         /\ authState'.error.originalError = FetchFailed]_vars

\* the timer fired and the refresh failed
C27_Witness ==
  /\ \E i \in DOMAIN tasks :
       /\ tasks[i].kind = "sessionRefresh"
       /\ tasks[i].pc = "done"
  /\ authState.user = Profile
  /\ authState.loadingState = "IDLE"
  /\ authState.error # Null
  /\ authState.error.type = "SESSION_ERROR"
  /\ authState.error.retryable

\* the step changes nothing of the controller but the list of calls
OnlyTasksChange ==
  /\ authState' = authState
  /\ timers' = timers
  /\ sessionRefreshTimeoutRef' = sessionRefreshTimeoutRef
  /\ channel' = channel

C29_Original ==
  subscription = "unsubscribed" => abortControllerRef = "aborted" /\ timers = {}

\* C30 as stated: once the token is signalled, no call of the controller
\* makes a further session query or profile query.
C30_Original ==
  [][abortControllerRef = "aborted" =>
       \A i \in DOMAIN tasks :
         /\ tasks'[i].calls <= tasks[i].calls
         /\ tasks'[i].queries <= tasks[i].queries]_vars

\* the attempt in flight of an asynchronous pipeline settles with success
\* after the abort signal was set
SucceedsWhileAborted ==
  /\ Async
  /\ pc = "inflight"
  /\ options.hasSignal
  /\ aborted
  /\ pc' # "inflight" \/ stepIndex' # stepIndex
  /\ ~settled'.threw

C32_Original ==
  (authState.loadingState # "IDLE")
    ~> (authState.loadingState = "IDLE" \/ subscription = "unsubscribed")

\* a logout has signed out, its SIGNED_OUT was processed, and every call of
\* the controller has finished; the only other calls were bootstraps and
\* SIGNED_IN handlers that started before the logout
SignedOutAndQuiet ==
  /\ channel = <<>>
  /\ \A i \in DOMAIN tasks : tasks[i].pc = "done"
  /\ \E j \in DOMAIN tasks :
       /\ tasks[j].kind = "logout"
       /\ tasks[j].result = Resolved([success |-> TRUE])
       /\ \A i \in DOMAIN tasks \ {j} :
            \/ tasks[i].kind = "checkInitialSession" /\ tasks[i].event = "mount"
            \/ /\ tasks[i].kind = "handleAuthChange"
               /\ tasks[i].event = "SIGNED_IN"
               /\ i < j

\* C33 as stated: once SIGNED_OUT was processed and all handlers have
\* finished, with no SIGNED_IN delivered after it, the user is absent and no
\* renewal timer is armed, also when a profile fetch was in flight at the
\* sign-out.
C33_Original ==
  SignedOutAndQuiet => authState.user = Null /\ timers = {}

\* C34: in every state at most one renewal timer is armed, and it is the
\* one sessionRefreshTimeoutRef holds.
C34_OneRenewalTimer ==
  /\ Cardinality(timers) <= 1
  /\ \A tm \in timers : tm.id = sessionRefreshTimeoutRef

\* a second renewal timer was armed and is the only one
C34_Witness ==
  /\ timerSeq >= 2
  /\ timers = {[id |-> sessionRefreshTimeoutRef, delay |-> RefreshLeadMs]}
  /\ sessionRefreshTimeoutRef = timerSeq

\* the messages of the SessionError a failed renewal stores
RenewalMessages == {"session refresh failed", "error during session refresh"}

\* C35: in every state a stored ProfileError, AuthError or UnknownError has
\* retryable = false; a stored error with retryable = true is a NetworkError
\* or the SessionError of a failed renewal; and no call of refreshUser was
\* made by retryLastOperation.
C35_RetryableErrors ==
  /\ authState.error # Null =>
       /\ authState.error.type \in {"PROFILE_ERROR", "AUTH_ERROR", "UNKNOWN_ERROR"}
            => ~authState.error.retryable
       /\ authState.error.retryable
            => \/ authState.error.type = "NETWORK_ERROR"
               \/ /\ authState.error.type = "SESSION_ERROR"
                  /\ authState.error.message \in RenewalMessages
  /\ \A i \in DOMAIN tasks :
       ~(tasks[i].kind = "refreshUser" /\ tasks[i].event = "retryLastOperation")

\* retryLastOperation was called with a ProfileError stored and returned at
\* once
C35_Witness ==
  /\ authState.error # Null
  /\ authState.error.type = "PROFILE_ERROR"
  /\ \E i \in DOMAIN tasks :
       /\ tasks[i].kind = "retryLastOperation"
       /\ tasks[i].pc = "done"

\* C36: in every state, a bootstrap has made at most 2 session queries, a
\* login at most 2 sign-in calls and a profile fetch at most 3 profile
\* queries; a call sleeps for another try, or has made more than one try,
\* only after a failure with the network signature, so a failure without it
\* ends the loop after the call that met it.
C36_BoundedRetryLoops ==
  \A i \in DOMAIN tasks :
    /\ tasks[i].kind \in {"checkInitialSession", "login"} => tasks[i].calls <= 2
    /\ tasks[i].queries <= 3
    /\ tasks[i].pc \in {"sessionSleep", "loginSleep"}
         => TransientSignature(tasks[i].lastError) /\ tasks[i].calls < 2
    /\ tasks[i].pc = "fetchSleep"
         => TransientSignature(tasks[i].fLastError) /\ tasks[i].queries < 3
    /\ (tasks[i].kind \in {"checkInitialSession", "login"} /\ tasks[i].calls > 1)
         => TransientSignature(tasks[i].lastError)
    /\ tasks[i].queries > 1 => TransientSignature(tasks[i].fLastError)

\* a bootstrap is in its second session query while a profile fetch of
\* another call is in its third profile query
C36_Witness ==
  /\ \E i \in DOMAIN tasks :
       /\ tasks[i].kind = "checkInitialSession"
       /\ tasks[i].pc = "getSession"
       /\ tasks[i].calls = 2
  /\ \E i \in DOMAIN tasks :
       /\ tasks[i].pc = "query"
       /\ tasks[i].queries = 3

\* C37 as stated: whatever was called before, the memoized function returns
\* what fn returns for the arguments of the call.
C37_Original ==
  memoCall # Undefined => memoCall.returned = ApplyMemoFn(memoFn, memoCall.args)

\* no operation is under way in the hook: no effect is due and no debounced
\* write is pending
PersistQuiet == ~writeEffectDue /\ debouncedWrite = {}

\* C38 as stated: when removeValue was the last operation and every pending
\* write has run, localStorage holds no item under the key.
C38_Original ==
  (lastChange = "remove" /\ PersistQuiet) => localStorage = {}

\* C39 as stated: a value set with the hook's setter is written to
\* localStorage eventually, unless a later operation replaces it.
C39_Original ==
  (lastChange = "local")
    ~> (lastChange # "local" \/ localStorage = {Stringify(persistValue)})

====
